---- MODULE Spec2Model ----
(***************************************************************************)
(* A model of the class/module registration, foreign-object binding and    *)
(* call boundary layer of artichoke-backend.                               *)
(*                                                                         *)
(*   SpecDef   the VM namespace, Rclass::resolve and Builder::define       *)
(*   SpecBox   the type registry, box_into_value / unbox_from_value, the   *)
(*             collector and the MatchData trampolines                     *)
(*   SpecCall  Value::funcall and ClassRegistry::new_instance              *)
(***************************************************************************)
EXTENDS Integers, Sequences, FiniteSets, TLC

VARIABLES
    vm,         \* the mruby state: constants, class objects, symbol table
    classes,    \* State::classes, the registry of class specs by host type
    lastDef,    \* the last operation of the definition layer and its result
    insts,      \* the instances the VM allocated, with their data slots
    heap,       \* the host values moved into instances, with their releases
    lastBox,    \* the last box, unbox or method call and its result
    lastCall,   \* the last call through the call boundary and its result
    modules,    \* State::modules, the registry of module specs by host type
    frames,     \* the funcalls in progress, innermost last
    arena,      \* the index of the VM's arena of protected values
    input,      \* the arguments of the pure function under check
    output      \* what the function returned for them

defVars == <<vm, classes, lastDef>>

boxVars == <<insts, heap, lastBox>>

auxVars == <<modules, frames, arena, input, output>>

vars ==
    <<vm, classes, lastDef, insts, heap, lastBox, lastCall, modules, frames, arena,
      input, output>>

(***************************************************************************)
(* Bounds of the model.                                                    *)
(***************************************************************************)
MaxObjs == 4

MaxDefObjs == 3

MaxInsts == 1

MaxBoxes == 2

MaxArgs == 17
\* The deepest nesting of funcall within funcall.
MaxDepth == 3
\* The most values on the GC arena.
MaxArena == 2
\* The most add_method calls on one builder.
MaxAdds == 2
\* The longest name, in bytes, given to Spec::new.
MaxNameLen == 3
\* The most entries of a converted map.
MaxPairs == 3
\* The most values a script sequence creates.
MaxEvals == 3

MaxRegexps == 4

MaxArgc == 2

MaxSpecs == 3

MaxArrays == 2

(***************************************************************************)
(* Names, kinds, specs.                                                    *)
(***************************************************************************)
Names == {"Foo", "Bar"}

Kinds == {"class", "module"}

HostTypes == {"Container", "MatchData"}

ModuleTypes == {"SecureRandom"}

NoScope == [kind |-> "none"]

\* class::Spec::new / module::Spec::new: the fields a Spec keeps.
NewSpec(kind, name, scope, free) ==
    [kind |-> kind, name |-> name, scope |-> scope, free |-> free]

RootSpecs == {NewSpec(k, n, NoScope, "none") : k \in Kinds, n \in Names}

NestedSpecs1 == {NewSpec(k, n, s, "none") : k \in Kinds, n \in Names, s \in RootSpecs}

NestedSpecs2 == {NewSpec(k, n, s, "none") : k \in Kinds, n \in Names, s \in NestedSpecs1}

SpecUniverse == RootSpecs \cup NestedSpecs1 \cup NestedSpecs2

\* Spec::enclosing_scope
enclosing_scope(s) == s.scope

IsNested(s) == enclosing_scope(s).kind # "none"

\* A qualified name that leaves the enclosing scope out.
Mut_fqname(s) == s.name

RECURSIVE fqname(_)
\* Spec::fqname and EnclosingRubyScope::fqname
fqname(s) ==
    IF IsNested(s)
    THEN (fqname(enclosing_scope(s)) \o "::") \o s.name
    ELSE s.name

RECURSIVE Depth(_)
\* The number of enclosing scopes of a spec.
Depth(s) == IF IsNested(s) THEN 1 + Depth(enclosing_scope(s)) ELSE 0

(***************************************************************************)
(* Methods of a builder: method::Spec values.                              *)
(***************************************************************************)
MethodUniverse ==
    { [type |-> "Instance", name |-> "initialize", fn |-> 1],
      [type |-> "Class", name |-> "make", fn |-> 2] }

MethodSets == SUBSET MethodUniverse

(***************************************************************************)
(* The VM.  Handle 1 is mrb->object_class; handle 0 is the null pointer.   *)
(***************************************************************************)
ObjectClass == 1

NullHandle == 0

NewRClass(kind, super) ==
    [kind |-> kind, super |-> super, meths |-> {}, tt |-> "MRB_TT_OBJECT"]

VmInit ==
    [ consts  |-> {},
      objs    |-> << NewRClass("class", NullHandle) >>,
      symbols |-> {} ]

\* mrb_intern: the symbol table with the name in it.
mrb_intern(v, name) == [v EXCEPT !.symbols = @ \cup {name}]

\* mrb_const_defined_at: is the symbol a constant directly on the object.
mrb_const_defined_at(v, scope, sym) ==
    \E c \in v.consts : c.scope = scope /\ c.name = sym

\* The object a constant of a scope is bound to (null when there is none).
ConstGet(v, scope, name) ==
    IF mrb_const_defined_at(v, scope, name)
    THEN (CHOOSE c \in v.consts : c.scope = scope /\ c.name = name).obj
    ELSE NullHandle

\* mrb_class_defined_under: the name is looked up without interning it.
mrb_class_defined_under(v, scope, name) ==
    name \in v.symbols /\ mrb_const_defined_at(v, scope, name)

\* mrb_class_defined: the same query at the root.
mrb_class_defined(v, name) == mrb_class_defined_under(v, ObjectClass, name)

\* mrb_class_get_under / mrb_module_get_under: intern the name, fetch the
\* constant of that name under the scope.
mrb_class_get_under(v, scope, name) ==
    [vm |-> mrb_intern(v, name), h |-> ConstGet(v, scope, name)]

mrb_module_get_under(v, scope, name) == mrb_class_get_under(v, scope, name)

mrb_class_get(v, name) == mrb_class_get_under(v, ObjectClass, name)

mrb_module_get(v, name) == mrb_module_get_under(v, ObjectClass, name)

\* The VM creating a class or module object and binding it to a constant.
VmCreate(v, kind, scope, name, super) ==
    LET h == Len(v.objs) + 1 IN
    [ vm |-> [ consts  |-> v.consts \cup {[scope |-> scope, name |-> name, obj |-> h]},
               objs    |-> Append(v.objs, NewRClass(kind, super)),
               symbols |-> v.symbols \cup {name} ],
      h  |-> h ]

\* mrb_define_class_under: the existing constant, else a new class.
mrb_define_class_under(v, scope, name, super) ==
    IF mrb_const_defined_at(v, scope, name)
    THEN [vm |-> mrb_intern(v, name), h |-> ConstGet(v, scope, name)]
    ELSE VmCreate(v, "class", scope, name, super)

mrb_define_class(v, name, super) ==
    mrb_define_class_under(v, ObjectClass, name, super)

\* mrb_define_module_under: the existing constant, else a new module.
mrb_define_module_under(v, scope, name) ==
    IF mrb_const_defined_at(v, scope, name)
    THEN [vm |-> mrb_intern(v, name), h |-> ConstGet(v, scope, name)]
    ELSE VmCreate(v, "module", scope, name, NullHandle)

mrb_define_module(v, name) == mrb_define_module_under(v, ObjectClass, name)

\* mrb_sys_set_instance_tt
mrb_sys_set_instance_tt(v, h, tt) == [v EXCEPT !.objs[h].tt = tt]

\* method::Spec::define: the method replaces one of the same type and name.
method_define(v, h, m) ==
    [v EXCEPT !.objs[h].meths =
        {x \in @ : ~(x.type = m.type /\ x.name = m.name)} \cup {m}]

\* One call of the VM as it is logged by an operation.
VmCall(fn, name, lvl) == [fn |-> fn, name |-> name, lvl |-> lvl]

(***************************************************************************)
(* Rclass::resolve for classes and modules.  Each returns the VM after the *)
(* calls, the handle (null for None) and the VM calls it made.             *)
(***************************************************************************)
RECURSIVE class_Rclass_resolve(_, _)
RECURSIVE module_Rclass_resolve(_, _)
RECURSIVE EnclosingRubyScope_rclass(_, _)

\* Option<NonNull<RClass>>::None after the calls made so far.
ResolvedNone(v, calls) == [vm |-> v, h |-> NullHandle, calls |-> calls]

\* NonNull::new(class) of the fetched object.
ResolvedGet(g, calls) == [vm |-> g.vm, h |-> g.h, calls |-> calls]

\* class::Rclass::resolve below a scope that was resolved to sc.
class_resolve_under(s, sc, lvl) ==
    IF sc.h = NullHandle
    THEN ResolvedNone(sc.vm, sc.calls)
    ELSE IF ~mrb_class_defined_under(sc.vm, sc.h, s.name)
    THEN ResolvedNone(sc.vm,
            Append(sc.calls, VmCall("mrb_class_defined_under", s.name, lvl)))
    ELSE ResolvedGet(mrb_class_get_under(sc.vm, sc.h, s.name),
            sc.calls \o << VmCall("mrb_class_defined_under", s.name, lvl),
                           VmCall("mrb_class_get_under", s.name, lvl) >>)

\* class::Rclass::resolve of a spec without an enclosing scope.
class_resolve_root(v, s) ==
    IF ~mrb_class_defined(v, s.name)
    THEN ResolvedNone(v, << VmCall("mrb_class_defined", s.name, 0) >>)
    ELSE ResolvedGet(mrb_class_get(v, s.name),
            << VmCall("mrb_class_defined", s.name, 0),
               VmCall("mrb_class_get", s.name, 0) >>)

\* A resolve below a scope that fetches the class without asking whether it
\* is defined.
Mut_class_resolve_under(s, sc, lvl) ==
    IF sc.h = NullHandle
    THEN ResolvedNone(sc.vm, sc.calls)
    ELSE ResolvedGet(mrb_class_get_under(sc.vm, sc.h, s.name),
            Append(sc.calls, VmCall("mrb_class_get_under", s.name, lvl)))

\* A resolve that fetches the class without asking whether it is defined.
Mut_class_Rclass_resolve(v, s) ==
    IF IsNested(s)
    THEN Mut_class_resolve_under(s, EnclosingRubyScope_rclass(v, enclosing_scope(s)),
                                 Depth(s))
    ELSE ResolvedGet(mrb_class_get(v, s.name), << VmCall("mrb_class_get", s.name, 0) >>)

\* A resolve that checks at the root that what it found is a class.
Mut_class_resolve_typed(v, s) ==
    IF IsNested(s)
    THEN class_resolve_under(s, EnclosingRubyScope_rclass(v, enclosing_scope(s)),
                             Depth(s))
    ELSE IF /\ mrb_class_defined(v, s.name)
            /\ v.objs[ConstGet(v, ObjectClass, s.name)].kind # "class"
    THEN ResolvedNone(v, << VmCall("mrb_class_defined", s.name, 0) >>)
    ELSE class_resolve_root(v, s)

\* class::Rclass::resolve
class_Rclass_resolve(v, s) ==
    IF IsNested(s)
    THEN class_resolve_under(s, EnclosingRubyScope_rclass(v, enclosing_scope(s)),
                             Depth(s))
    ELSE class_resolve_root(v, s)

\* module::Rclass::resolve below a scope that was resolved to sc.
module_resolve_under(s, sc, lvl) ==
    IF sc.h = NullHandle
    THEN ResolvedNone(sc.vm, sc.calls)
    ELSE IF ~mrb_const_defined_at(sc.vm, sc.h, s.name)
    THEN ResolvedNone(sc.vm,
            Append(sc.calls, VmCall("mrb_const_defined_at", s.name, lvl)))
    ELSE ResolvedGet(mrb_module_get_under(sc.vm, sc.h, s.name),
            sc.calls \o << VmCall("mrb_const_defined_at", s.name, lvl),
                           VmCall("mrb_module_get_under", s.name, lvl) >>)

\* module::Rclass::resolve of a spec without an enclosing scope.
module_resolve_root(v, s) ==
    IF ~mrb_const_defined_at(v, ObjectClass, s.name)
    THEN ResolvedNone(v, << VmCall("mrb_const_defined_at", s.name, 0) >>)
    ELSE ResolvedGet(mrb_module_get(v, s.name),
            << VmCall("mrb_const_defined_at", s.name, 0),
               VmCall("mrb_module_get", s.name, 0) >>)

\* A scope that did not resolve, taken for the root.
ScopeOrRoot(sc) == IF sc.h = NullHandle THEN [sc EXCEPT !.h = ObjectClass] ELSE sc

\* A resolve that looks the module up although its scope did not resolve.
Mut_module_Rclass_resolve(v, s) ==
    IF IsNested(s)
    THEN module_resolve_under(s,
            ScopeOrRoot(EnclosingRubyScope_rclass(v, enclosing_scope(s))), Depth(s))
    ELSE module_resolve_root(v, s)

\* module::Rclass::resolve
module_Rclass_resolve(v, s) ==
    IF IsNested(s)
    THEN module_resolve_under(s, EnclosingRubyScope_rclass(v, enclosing_scope(s)),
                              Depth(s))
    ELSE module_resolve_root(v, s)

\* EnclosingRubyScope::rclass: the scope's own class or module resolve.
EnclosingRubyScope_rclass(v, scope) ==
    IF scope.kind = "class"
    THEN class_Rclass_resolve(v, scope)
    ELSE module_Rclass_resolve(v, scope)

\* spec.rclass().resolve(mrb) for a spec of either kind.
Resolve(v, s) == EnclosingRubyScope_rclass(v, s)

(***************************************************************************)
(* Builder::define for classes and modules.                                *)
(***************************************************************************)
NoMethod == [type |-> "none", name |-> "", fn |-> 0]

NoError == [ok |-> TRUE, err |-> "", what |-> "", name |-> ""]

\* NotDefinedError::enclosing_scope, ::class, ::module, ::super_class, ::method
NotDefinedError(what, name) ==
    [ok |-> FALSE, err |-> "NotDefinedError", what |-> what, name |-> name]

\* class::Builder::for_spec
class_Builder_for_spec(s) ==
    [spec |-> s, is_mrb_tt_data |-> FALSE, super_class |-> NullHandle, methods |-> {}]

\* class::Builder::value_is_rust_object
value_is_rust_object(b) == [b EXCEPT !.is_mrb_tt_data = TRUE]

\* Builder::add_method / add_self_method / add_module_method: HashSet::insert
\* keeps the entry that is already in the set when an equal one is inserted.
add_method(b, m) ==
    IF \E x \in b.methods : x.type = m.type /\ x.name = m.name
    THEN b
    ELSE [b EXCEPT !.methods = @ \cup {m}]

RECURSIVE add_methods(_, _)
\* The chain of add_method calls of a registration.
add_methods(b, ms) ==
    IF ms = {} THEN b
    ELSE add_methods(add_method(b, CHOOSE x \in ms : TRUE),
                     ms \ {CHOOSE x \in ms : TRUE})

\* module::Builder::for_spec
module_Builder_for_spec(s) == [spec |-> s, methods |-> {}]

RECURSIVE BindAll(_, _, _)
\* for method in &self.methods { method.define(interp, rclass)? }
BindAll(v, h, ms) ==
    IF ms = {} THEN v
    ELSE BindAll(method_define(v, h, CHOOSE x \in ms : TRUE), h,
                 ms \ {CHOOSE x \in ms : TRUE})

\* A method loop that takes back the methods it bound when one is rejected.
Mut_BindMethods(v, h, methods, rejected, before) ==
    IF rejected = [type |-> "none", name |-> "", fn |-> 0]
    THEN [vm |-> BindAll(v, h, methods),
          res |-> [ok |-> TRUE, err |-> "", what |-> "", name |-> ""],
          bound |-> methods]
    ELSE [ vm |-> v,
           res |-> [ok |-> FALSE, err |-> "NotDefinedError", what |-> "method",
                    name |-> rejected.name],
           bound |-> before ]

\* The loop over the builder's methods: the VM rejects `rejected` (NoMethod:
\* none) after the methods in `before` were bound.
BindMethods(v, h, methods, rejected, before) ==
    IF rejected = NoMethod
    THEN [vm |-> BindAll(v, h, methods), res |-> NoError, bound |-> methods]
    ELSE [ vm |-> BindAll(v, h, before),
           res |-> NotDefinedError("method", rejected.name),
           bound |-> before ]

\* The class or module object define() works on, or the error it returns.
DefineTarget(v, h, res, calls) == [vm |-> v, h |-> h, res |-> res, calls |-> calls]

\* The result of define(): the VM, the Result, the object, the calls made
\* before the method loop, the methods bound.
DefineResult(v, res, h, calls, bound) ==
    [vm |-> v, res |-> res, h |-> h, calls |-> calls, bound |-> bound]

\* A define that passes Object as the superclass whatever the builder carries.
Mut_SuperClassOf(b) == ObjectClass

\* The superclass define() passes to the VM: the builder's, else Object.
SuperClassOf(b) ==
    IF b.super_class # NullHandle THEN b.super_class ELSE ObjectClass

\* A define that marks the instances as data instances only for a class it
\* created itself.
Mut_class_define_tag_new(b, t, m) ==
    DefineResult(IF /\ m.res.ok
                    /\ b.is_mrb_tt_data
                    /\ \E i \in 1..Len(t.calls) :
                          t.calls[i].fn \in {"mrb_define_class", "mrb_define_class_under"}
                 THEN mrb_sys_set_instance_tt(m.vm, t.h, "MRB_TT_DATA")
                 ELSE m.vm,
                 m.res, t.h, t.calls, m.bound)

\* A define that never marks the instances of the class as data instances.
Mut_class_define_finish(b, t, m) == DefineResult(m.vm, m.res, t.h, t.calls, m.bound)

\* The end of class::Builder::define: the result of the method loop, then
\* mrb_sys_set_instance_tt when the builder is for a Rust object.
class_define_finish(b, t, m) ==
    DefineResult(IF m.res.ok /\ b.is_mrb_tt_data
                 THEN mrb_sys_set_instance_tt(m.vm, t.h, "MRB_TT_DATA")
                 ELSE m.vm,
                 m.res, t.h, t.calls, m.bound)

\* class::Builder::define from the method loop on.
class_define_methods(b, t, rejected, before) ==
    IF ~t.res.ok
    THEN DefineResult(t.vm, t.res, t.h, t.calls, {})
    ELSE class_define_finish(b, t, BindMethods(t.vm, t.h, b.methods, rejected, before))

\* The object returned by a VM define call.
Defined(d, calls) == DefineTarget(d.vm, d.h, NoError, calls)

\* class::Builder::define of a nested spec that did not resolve.
class_define_under(b, sc, calls) ==
    IF sc.h # NullHandle
    THEN Defined(mrb_define_class_under(sc.vm, sc.h, b.spec.name, SuperClassOf(b)),
                 (calls \o sc.calls)
                 \o << VmCall("mrb_define_class_under", b.spec.name, 0) >>)
    ELSE DefineTarget(sc.vm, NullHandle,
                      NotDefinedError("enclosing_scope", fqname(enclosing_scope(b.spec))),
                      calls \o sc.calls)

\* A define that calls mrb_define_class with the builder's superclass for a
\* root spec whether it resolved or not.
Mut_class_define_redefine(b, r) ==
    IF IsNested(b.spec)
    THEN IF r.h # NullHandle
         THEN DefineTarget(r.vm, r.h, NoError, r.calls)
         ELSE class_define_under(b, EnclosingRubyScope_rclass(r.vm, enclosing_scope(b.spec)),
                                 r.calls)
    ELSE Defined(mrb_define_class(r.vm, b.spec.name, SuperClassOf(b)),
                 Append(r.calls, VmCall("mrb_define_class", b.spec.name, 0)))

\* A define that forgets the enclosing scope and defines at the root.
Mut_class_define_target(b, r) ==
    IF r.h # NullHandle
    THEN DefineTarget(r.vm, r.h, NoError, r.calls)
    ELSE Defined(mrb_define_class(r.vm, b.spec.name, SuperClassOf(b)),
                 Append(r.calls, VmCall("mrb_define_class", b.spec.name, 0)))

\* class::Builder::define: the object it works on, given the resolve r.
class_define_target(b, r) ==
    IF r.h # NullHandle
    THEN DefineTarget(r.vm, r.h, NoError, r.calls)
    ELSE IF IsNested(b.spec)
    THEN class_define_under(b, EnclosingRubyScope_rclass(r.vm, enclosing_scope(b.spec)),
                            r.calls)
    ELSE Defined(mrb_define_class(r.vm, b.spec.name, SuperClassOf(b)),
                 Append(r.calls, VmCall("mrb_define_class", b.spec.name, 0)))

\* class::Builder::define
class_Builder_define(v, b, rejected, before) ==
    class_define_methods(b, class_define_target(b, class_Rclass_resolve(v, b.spec)),
                         rejected, before)

\* The end of module::Builder::define: the result of the method loop.
module_define_methods(t, m) ==
    IF ~t.res.ok
    THEN DefineResult(t.vm, t.res, t.h, t.calls, {})
    ELSE DefineResult(m.vm, m.res, t.h, t.calls, m.bound)

\* A define that names the module, not its enclosing scope, in the error.
Mut_module_define_under(b, sc, calls) ==
    IF sc.h # NullHandle
    THEN Defined(mrb_define_module_under(sc.vm, sc.h, b.spec.name),
                 (calls \o sc.calls)
                 \o << VmCall("mrb_define_module_under", b.spec.name, 0) >>)
    ELSE DefineTarget(sc.vm, NullHandle,
                      NotDefinedError("module", b.spec.name), calls \o sc.calls)

\* module::Builder::define of a nested spec that did not resolve.
module_define_under(b, sc, calls) ==
    IF sc.h # NullHandle
    THEN Defined(mrb_define_module_under(sc.vm, sc.h, b.spec.name),
                 (calls \o sc.calls)
                 \o << VmCall("mrb_define_module_under", b.spec.name, 0) >>)
    ELSE DefineTarget(sc.vm, NullHandle,
                      NotDefinedError("enclosing_scope", fqname(enclosing_scope(b.spec))),
                      calls \o sc.calls)

\* module::Builder::define: the object it works on, given the resolve r.
module_define_target(b, r) ==
    IF r.h # NullHandle
    THEN DefineTarget(r.vm, r.h, NoError, r.calls)
    ELSE IF IsNested(b.spec)
    THEN module_define_under(b, EnclosingRubyScope_rclass(r.vm, enclosing_scope(b.spec)),
                             r.calls)
    ELSE Defined(mrb_define_module(r.vm, b.spec.name),
                 Append(r.calls, VmCall("mrb_define_module", b.spec.name, 0)))

\* The method loop of module::Builder::define on the object t.
module_define_bind(b, t, rejected, before) ==
    module_define_methods(t,
        IF t.res.ok
        THEN BindMethods(t.vm, t.h, b.methods, rejected, before)
        ELSE [vm |-> t.vm, res |-> t.res, bound |-> {}])

\* module::Builder::define
module_Builder_define(v, b, rejected, before) ==
    module_define_bind(b, module_define_target(b, module_Rclass_resolve(v, b.spec)),
                       rejected, before)

(***************************************************************************)
(* The type registry: State::classes.                                      *)
(***************************************************************************)
NoSpec == [kind |-> "none"]

\* A def_class that keeps the entry that is already there.
Mut_def_class(reg, T, s) == IF reg[T] # [kind |-> "none"] THEN reg ELSE [reg EXCEPT ![T] = s]

\* ClassRegistry::def_class: insert, the last writer wins.
def_class(reg, T, s) == [reg EXCEPT ![T] = s]

\* ClassRegistry::class_spec
class_spec(reg, T) == reg[T]

\* ClassRegistry::is_class_defined
is_class_defined(reg, T) == class_spec(reg, T) # NoSpec

(***************************************************************************)
(* The operations of the definition layer.                                 *)
(***************************************************************************)
\* No box, unbox or method call is in progress.
NoBox ==
    [ op |-> "none", type |-> "", inst |-> 0, method |-> "", ok |-> TRUE, err |-> "",
      ref |-> 0, val |-> "", trace |-> << >> ]

\* No call through the boundary is in progress.
NoCall ==
    [ op |-> "none", type |-> "", nargs |-> 0, ok |-> TRUE, err |-> "", given |-> 0,
      max |-> 0, name |-> "", message |-> "", value |-> "", h |-> 0,
      pr |-> [ran |-> FALSE, ok |-> TRUE, tt |-> "",
              exc |-> [class |-> "", msg |-> ""]],
      log |-> << >> ]

NoDef ==
    [ op |-> "none", type |-> "", spec |-> NoSpec, meths |-> {}, tt |-> FALSE,
      super |-> NullHandle, res |-> NoError, h |-> NullHandle, calls |-> << >>,
      bound |-> {} ]

RECURSIVE SpecConstructed(_, _)
\* A module Spec exists only after module::Spec::new interned its name.
SpecConstructed(v, s) ==
    /\ s.kind = "module" => s.name \in v.symbols
    /\ IsNested(s) => SpecConstructed(v, enclosing_scope(s))

\* No operation is in progress: the caller has taken the last result.
Idle == lastDef.op = "none"

\* The caller takes the result of the operation.
Return ==
    /\ ~Idle
    /\ lastDef' = NoDef
    /\ UNCHANGED <<vm, classes, boxVars, lastCall, auxVars>>

\* module::Spec::new interns the name of the module.
ModuleSpecNew(name) ==
    /\ Idle
    /\ name \notin vm.symbols
    /\ vm' = mrb_intern(vm, name)
    /\ lastDef' = [NoDef EXCEPT !.op = "module_spec_new"]
    /\ UNCHANGED <<classes, boxVars, lastCall, auxVars>>

\* interp.eval of a script that opens a class or a module under a scope.
VmEval(kind, scope, name, max) ==
    /\ Idle
    /\ Len(vm.objs) < max
    /\ scope \in 1..Len(vm.objs)
    /\ ~mrb_const_defined_at(vm, scope, name)
    /\ vm' = VmCreate(vm, kind, scope, name,
                      IF kind = "class" THEN ObjectClass ELSE NullHandle).vm
    /\ lastDef' = [NoDef EXCEPT !.op = "eval"]
    /\ UNCHANGED <<classes, boxVars, lastCall, auxVars>>

\* The state after a resolve that returned r.
Resolved(s, r) ==
    /\ vm' = r.vm
    /\ lastDef' = [NoDef EXCEPT !.op = "resolve", !.spec = s, !.h = r.h,
                                !.calls = r.calls]

\* The superclass a builder carries: module builders carry none.
DefinedSuper(b) ==
    IF "super_class" \in DOMAIN b THEN b.super_class ELSE NullHandle

\* The state after a define() of builder b that returned d.
DefinedBy(b, tt, d) ==
    /\ Len(d.vm.objs) <= MaxDefObjs
    /\ vm' = d.vm
    /\ lastDef' = [ op |-> "define", type |-> "", spec |-> b.spec, meths |-> b.methods,
                    tt |-> tt, super |-> DefinedSuper(b),
                    res |-> d.res, h |-> d.h, calls |-> d.calls, bound |-> d.bound ]

\* The builder of a class registration.
ClassBuilder(s, tt, ms) ==
    add_methods(IF tt THEN value_is_rust_object(class_Builder_for_spec(s))
                ELSE class_Builder_for_spec(s), ms)

\* The builder of a module registration.
ModuleBuilder(s, ms) == add_methods(module_Builder_for_spec(s), ms)

\* class::Builder::define on the builder b.
ClassDefineOf(b, tt, rejected, before) ==
    DefinedBy(b, tt, class_Builder_define(vm, b, rejected, before))

\* module::Builder::define on the builder b.
ModuleDefineOf(b, rejected, before) ==
    DefinedBy(b, FALSE, module_Builder_define(vm, b, rejected, before))

\* The Spec a host type registers: Spec::new(T, None, Some(box_unbox_free)).
HostSpec(T) == NewSpec("class", T, NoScope, "box_unbox_free")

\* interp.def_class::<T>(spec)
DefClass(T) ==
    /\ Idle
    /\ ~is_class_defined(classes, T)
    /\ classes' = def_class(classes, T, HostSpec(T))
    /\ UNCHANGED <<vm, lastDef, boxVars, lastCall, auxVars>>

\* spec.rclass().resolve(mrb) within with_ffi_boundary.
ResolveSpec(s) ==
    /\ Idle
    /\ SpecConstructed(vm, s)
    /\ Resolved(s, Resolve(vm, s))
    /\ UNCHANGED <<classes, boxVars, lastCall, auxVars>>

\* class::Builder::for_spec(..) [.value_is_rust_object()] .add_method(..)* .define()
ClassBuilderDefine(s, tt, ms, rejected, before) ==
    /\ Idle
    /\ s.kind = "class"
    /\ SpecConstructed(vm, s)
    /\ ClassDefineOf(ClassBuilder(s, tt, ms), tt, rejected, before)
    /\ UNCHANGED <<classes, boxVars, lastCall, auxVars>>

\* module::Builder::for_spec(..) .add_method(..)* .define()
ModuleBuilderDefine(s, ms, rejected, before) ==
    /\ Idle
    /\ s.kind = "module"
    /\ SpecConstructed(vm, s)
    /\ ModuleDefineOf(ModuleBuilder(s, ms), rejected, before)
    /\ UNCHANGED <<classes, boxVars, lastCall, auxVars>>

\* The outcomes of the method loop: no method is rejected, or the VM rejects
\* the first method that is bound.
BindOutcomes(ms) == {NoMethod} \cup ms

\* The method sets the registrations of the model pass to a builder.
BuilderMethodSets ==
    { {}, {[type |-> "Instance", name |-> "initialize", fn |-> 1]}, MethodUniverse }

\* The specs the registrations of the model define.
DefineSpecs == RootSpecs \cup NestedSpecs1

DefInit ==
    /\ vm = VmInit
    /\ classes = [T \in HostTypes |-> NoSpec]
    /\ lastDef = NoDef
    /\ insts = << >>
    /\ heap = << >>
    /\ lastBox = NoBox
    /\ lastCall = NoCall
    /\ modules = [T \in ModuleTypes |-> NoSpec]
    /\ frames = << >>
    /\ arena = 0
    /\ input = [op |-> "none"]
    /\ output = [op |-> "none"]

ResolveNext ==
    \/ \E n \in Names : ModuleSpecNew(n)
    \/ \E k \in Kinds, sc \in 1..MaxObjs, n \in Names : VmEval(k, sc, n, MaxObjs)
    \/ \E T \in HostTypes : DefClass(T)
    \/ \E s \in SpecUniverse : ResolveSpec(s)
    \/ Return

SpecResolve == DefInit /\ [][ResolveNext]_vars

DefineNext ==
    \/ \E n \in Names : ModuleSpecNew(n)
    \/ \E k \in Kinds, sc \in 1..MaxDefObjs, n \in Names : VmEval(k, sc, n, MaxDefObjs)
    \/ \E s \in DefineSpecs, tt \in BOOLEAN, ms \in BuilderMethodSets :
          \E rej \in BindOutcomes(ms) : ClassBuilderDefine(s, tt, ms, rej, {})
    \/ \E s \in DefineSpecs, ms \in BuilderMethodSets :
          \E rej \in BindOutcomes(ms) : ModuleBuilderDefine(s, ms, rej, {})
    \/ Return

SpecDefine == DefInit /\ [][DefineNext]_vars

(***************************************************************************)
(* Properties of Builder::define and Rclass::resolve.                      *)
(***************************************************************************)
RECURSIVE ScopeNames(_)
\* The names of a spec's chain, outermost first.
ScopeNames(s) ==
    IF IsNested(s) THEN Append(ScopeNames(enclosing_scope(s)), s.name) ELSE << s.name >>

\* The handles hs are the objects of the chain of names ns: each is the
\* constant of its name directly on the one before, the first on Object.
IsChain(v, ns, hs) ==
    \A i \in 1..Len(ns) :
        [ scope |-> IF i = 1 THEN ObjectClass ELSE hs[i - 1],
          name  |-> ns[i],
          obj   |-> hs[i] ] \in v.consts

Chains(v, s) ==
    {hs \in [1..Len(ScopeNames(s)) -> 1..Len(v.objs)] : IsChain(v, ScopeNames(s), hs)}

\* Every scope of the chain is defined and the name is defined directly
\* under the innermost scope.
ChainDefined(v, s) == Chains(v, s) # {}

DefineFns ==
    { "mrb_define_class", "mrb_define_class_under",
      "mrb_define_module", "mrb_define_module_under" }

CallsDefine(calls) == \E i \in 1..Len(calls) : calls[i].fn \in DefineFns

\* C5: define() of a spec that already resolves never fails because the type
\* exists, creates no object and rebinds no constant, and binds its methods on
\* the object the spec resolved to, beside the ones bound before; a define()
\* that returns Ok leaves every spec of that kind and qualified name resolving
\* to the one object it worked on.
C5_DefineTwiceOneObject ==
    [][ lastDef'.op = "define" =>
          /\ Resolve(vm, lastDef'.spec).h # NullHandle =>
                /\ lastDef'.res.ok \/ lastDef'.res.what = "method"
                /\ lastDef'.h = Resolve(vm, lastDef'.spec).h
                /\ Len(vm'.objs) = Len(vm.objs)
                /\ vm'.consts = vm.consts
                /\ vm.objs[lastDef'.h].meths \subseteq vm'.objs[lastDef'.h].meths
          /\ lastDef'.res.ok =>
                /\ lastDef'.h # NullHandle
                /\ lastDef'.meths \subseteq vm'.objs[lastDef'.h].meths
                /\ \A s \in DefineSpecs :
                      ( /\ s.kind = lastDef'.spec.kind
                        /\ fqname(s) = fqname(lastDef'.spec)
                        /\ SpecConstructed(vm', s) )
                      => Resolve(vm', s).h = lastDef'.h
      ]_defVars

\* C5 witness: a define() of a nested spec reused the existing object, which
\* holds a method of an earlier define() beside the methods of this one.
C5_Witness ==
    /\ lastDef.op = "define"
    /\ lastDef.res.ok
    /\ IsNested(lastDef.spec)
    /\ ~CallsDefine(lastDef.calls)
    /\ lastDef.meths # {}
    /\ vm.objs[lastDef.h].meths # lastDef.meths

\* C6: a resolve changes neither the VM (constants, class and module objects,
\* symbols) nor the type registry, whether it returns Some or None.
C6_ResolveChangesNothing ==
    [][ lastDef'.op = "resolve" => (vm' = vm /\ classes' = classes) ]_defVars

\* C6 witness: with a host type registered, a resolve of a class spec whose
\* name was never interned returned None, or one of a nested spec Some.
C6_Witness ==
    /\ lastDef.op = "resolve"
    /\ \E T \in HostTypes : is_class_defined(classes, T)
    /\ \/ /\ lastDef.spec.kind = "class"
          /\ lastDef.spec.name \notin vm.symbols
          /\ lastDef.h = NullHandle
       \/ /\ IsNested(lastDef.spec)
          /\ lastDef.h # NullHandle

\* C7: resolve returns Some exactly when the whole chain is defined, and then
\* the object at the end of the chain; when the enclosing scope does not
\* resolve it returns None without a lookup of the spec's own name.
C7_ResolveIffChainDefined ==
    lastDef.op = "resolve" =>
        /\ (lastDef.h # NullHandle) <=> ChainDefined(vm, lastDef.spec)
        /\ lastDef.h # NullHandle =>
              \E hs \in Chains(vm, lastDef.spec) : hs[Len(hs)] = lastDef.h
        /\ ( /\ IsNested(lastDef.spec)
             /\ ~ChainDefined(vm, enclosing_scope(lastDef.spec)) )
           => /\ lastDef.h = NullHandle
              /\ \A i \in 1..Len(lastDef.calls) :
                    lastDef.calls[i].lvl < Depth(lastDef.spec)

\* C7 witness: a resolve of a spec two scopes deep whose outer scope is
\* defined and whose inner scope is not, while its own name is a constant
\* of the root.
C7_Witness ==
    /\ lastDef.op = "resolve"
    /\ Depth(lastDef.spec) = 2
    /\ ChainDefined(vm, enclosing_scope(enclosing_scope(lastDef.spec)))
    /\ ~ChainDefined(vm, enclosing_scope(lastDef.spec))
    /\ mrb_const_defined_at(vm, ObjectClass, lastDef.spec.name)
    /\ lastDef.h = NullHandle

\* C8: define() of a nested spec whose enclosing scope does not resolve
\* returns NotDefinedError with the scope's qualified name, makes no VM define
\* call, binds no method and leaves the VM as it was.
C8_DefineMissingScope ==
    [][ ( /\ lastDef'.op = "define"
          /\ IsNested(lastDef'.spec)
          /\ Resolve(vm, lastDef'.spec).h = NullHandle
          /\ Resolve(vm, enclosing_scope(lastDef'.spec)).h = NullHandle )
        => /\ lastDef'.res = NotDefinedError("enclosing_scope",
                                fqname(enclosing_scope(lastDef'.spec)))
           /\ ~CallsDefine(lastDef'.calls)
           /\ lastDef'.bound = {}
           /\ vm' = vm
      ]_defVars

\* C8 witness: a define() with methods failed for its enclosing scope "Foo".
C8_Witness ==
    /\ lastDef.op = "define"
    /\ lastDef.res = NotDefinedError("enclosing_scope", "Foo")
    /\ lastDef.meths # {}

(***************************************************************************)
(* Boxing of host values into instances, and the collector.                *)
(***************************************************************************)
Vals == {"a", "b"}

\* The data type of a slot that was never initialised.
NoDataType == [struct_name |-> "", dfree |-> "none"]

\* class::Spec::new: the mrb_data_type of the spec, named after the class.
data_type(s) == [struct_name |-> s.name, dfree |-> s.free]

\* The VM allocates an instance of the class c: the data slot is null.
mrb_instance_alloc(v, c) ==
    [cls |-> c, tt |-> v.objs[c].tt, dtype |-> NoDataType, ptr |-> 0, rooted |-> TRUE]

IsCollected(o) == o.tt = "MRB_TT_FREE"

IsUnboxed(o) == ~IsCollected(o) /\ o.ptr = 0

IsBoxed(o) == ~IsCollected(o) /\ o.ptr # 0

\* The value moved to the host heap by a box, owned by the instance i.
NewCell(T, val, i) == [type |-> T, val |-> val, owner |-> i, frees |-> 0]

\* mrb_sys_data_init: the slot points to the cell and carries the data type.
mrb_sys_data_init(o, ptr, dt) == [o EXCEPT !.ptr = ptr, !.dtype = dt]

\* box_into_value: the value moves to the heap and the slot of the instance i
\* is initialised with the pointer and the registered data type of T.
box_into_value(reg, os, hp, T, val, i) ==
    IF class_spec(reg, T) = NoSpec
    THEN [ ok |-> FALSE, err |-> "NotDefinedError", insts |-> os, heap |-> hp ]
    ELSE [ ok |-> TRUE, err |-> "",
           insts |-> [os EXCEPT ![i] = mrb_sys_data_init(@, Len(hp) + 1,
                                            data_type(class_spec(reg, T)))],
           heap  |-> Append(hp, NewCell(T, val, i)) ]

\* The slot of the instance o holds a pointer tagged as a value of U.
SlotHolds(reg, o, U) ==
    /\ o.tt = "MRB_TT_DATA"
    /\ class_spec(reg, U) # NoSpec
    /\ o.dtype.struct_name = data_type(class_spec(reg, U)).struct_name
    /\ o.ptr # 0

UnboxError == [ok |-> FALSE, err |-> "UnboxError", ref |-> 0, val |-> ""]

\* unbox_from_value: a borrow of the value in the slot when the slot is
\* tagged as U, the type-mismatch error otherwise.
unbox_from_value(reg, o, hp, U) ==
    IF SlotHolds(reg, o, U)
    THEN [ok |-> TRUE, err |-> "", ref |-> o.ptr, val |-> hp[o.ptr].val]
    ELSE UnboxError

\* The collector reclaims the unreachable instance i: the free function of
\* the data type of its slot runs on the pointer of the slot.
mrb_gc_free(os, hp, i) ==
    [ insts |-> [os EXCEPT ![i].tt = "MRB_TT_FREE"],
      heap  |-> IF os[i].tt = "MRB_TT_DATA" /\ os[i].ptr # 0
                   /\ os[i].dtype.dfree # "none"
                THEN [hp EXCEPT ![os[i].ptr].frees = @ + 1]
                ELSE hp ]

(***************************************************************************)
(* The MatchData method implementations.                                   *)
(***************************************************************************)
MatchDataMethods ==
    { "begin", "captures", "element_reference", "end", "length", "named_captures",
      "names", "offset", "post_match", "pre_match", "regexp", "string", "to_a", "to_s" }

\* The methods that convert an argument with `?` right after the unbox.
ConvertsArg == {"begin", "end", "offset"}

\* The methods whose call on the data or whose conversion can fail.
DataCanFail ==
    MatchDataMethods \ {"names", "post_match", "pre_match"}

Outcomes == {"ok", "bad_arg", "data_err"}

MethodResult(ok, err, ref, trace) ==
    [ok |-> ok, err |-> err, ref |-> ref, trace |-> trace]

\* The method body after the unbox of self succeeded with the borrow ref.
trampoline_body(m, ref, outcome) ==
    IF m \in ConvertsArg /\ outcome = "bad_arg"
    THEN MethodResult(FALSE, "TypeError", 0, << "unbox_from_value", "try_convert_mut" >>)
    ELSE IF m \in DataCanFail /\ outcome = "data_err"
    THEN MethodResult(FALSE, "Exception", ref,
                      << "unbox_from_value", "convert_args", "data" >>)
    ELSE MethodResult(TRUE, "", ref,
                      << "unbox_from_value", "convert_args", "data", "convert" >>)

\* A method that answers nil when self cannot be unboxed.
Mut_trampoline_nil(m, u, outcome) ==
    IF ~u.ok
    THEN MethodResult(TRUE, "", 0, << "unbox_from_value" >>)
    ELSE trampoline_body(m, u.ref, outcome)

\* A method that converts its argument before it unboxes self.
Mut_trampoline_arg_first(m, u, outcome) ==
    IF m \in ConvertsArg /\ outcome = "bad_arg"
    THEN MethodResult(FALSE, "TypeError", 0, << "try_convert_mut" >>)
    ELSE IF ~u.ok
    THEN MethodResult(FALSE, u.err, 0, << "try_convert_mut", "unbox_from_value" >>)
    ELSE trampoline_body(m, u.ref, outcome)

\* matchdata::trampoline::*: the first statement unboxes self and returns
\* its error; u is the result of that unbox.
trampoline(m, u, outcome) ==
    IF ~u.ok
    THEN MethodResult(FALSE, u.err, 0, << "unbox_from_value" >>)
    ELSE trampoline_body(m, u.ref, outcome)

(***************************************************************************)
(* The operations on instances.                                            *)
(***************************************************************************)
BoxIdle == lastBox.op = "none"

\* The caller takes the result of the operation.
ReturnBox ==
    /\ ~BoxIdle
    /\ lastBox' = NoBox
    /\ UNCHANGED <<vm, classes, lastDef, insts, heap, lastCall, auxVars>>

\* The state after the registration of T defined its class as d.
Registered(T, d) ==
    /\ d.res.ok
    /\ vm' = d.vm
    /\ classes' = def_class(classes, T, HostSpec(T))

\* Container::require and matchdata::mruby::init: the class of the host type
\* is defined as a class of data instances and its spec is registered;
\* init returns early when the type is registered.
Require(T) ==
    /\ BoxIdle
    /\ T = "MatchData" => ~is_class_defined(classes, T)
    /\ Registered(T, class_Builder_define(vm,
                        ClassBuilder(HostSpec(T), TRUE,
                            {[type |-> "Instance", name |-> "initialize", fn |-> 1]}),
                        NoMethod, {}))
    /\ UNCHANGED <<lastDef, insts, heap, lastBox, lastCall, auxVars>>

\* The VM allocates an instance of the class c.
Allocate(c) ==
    /\ BoxIdle
    /\ Len(insts) < MaxInsts
    /\ c \in 1..Len(vm.objs)
    /\ vm.objs[c].kind = "class"
    /\ insts' = Append(insts, mrb_instance_alloc(vm, c))
    /\ UNCHANGED <<vm, classes, lastDef, heap, lastBox, lastCall, auxVars>>

\* The state after a box of val as T into the instance i that returned r.
Boxed(T, val, i, r) ==
    /\ insts' = r.insts
    /\ heap' = r.heap
    /\ lastBox' = [NoBox EXCEPT !.op = "box", !.type = T, !.inst = i,
                                !.ok = r.ok, !.err = r.err, !.val = val]

\* The initialize method of the host type T runs on the instance i of its
\* class and boxes val into it (container_initialize).
Box(T, val, i) ==
    /\ BoxIdle
    /\ Len(heap) < MaxBoxes
    /\ i \in 1..Len(insts)
    /\ insts[i].rooted
    /\ is_class_defined(classes, T) =>
          insts[i].cls = Resolve(vm, class_spec(classes, T)).h
    /\ Boxed(T, val, i, box_into_value(classes, insts, heap, T, val, i))
    /\ UNCHANGED <<vm, classes, lastDef, lastCall, auxVars>>

\* Host code unboxes the instance i as a value of U, also right after a box.
Unbox(U, i) ==
    /\ BoxIdle \/ lastBox.op = "box"
    /\ i \in 1..Len(insts)
    /\ lastBox' = [NoBox EXCEPT !.op = "unbox", !.type = U, !.inst = i,
                     !.ok = unbox_from_value(classes, insts[i], heap, U).ok,
                     !.err = unbox_from_value(classes, insts[i], heap, U).err,
                     !.ref = unbox_from_value(classes, insts[i], heap, U).ref,
                     !.val = unbox_from_value(classes, insts[i], heap, U).val]
    /\ UNCHANGED <<vm, classes, lastDef, insts, heap, lastCall, auxVars>>

\* The state after a MatchData method on the instance i that returned r.
MethodReturned(m, i, r) ==
    lastBox' = [NoBox EXCEPT !.op = "method", !.type = "MatchData", !.inst = i,
                             !.method = m, !.ok = r.ok, !.err = r.err,
                             !.ref = r.ref, !.trace = r.trace]

\* The VM calls the MatchData method m with the instance i as self.
MatchDataMethod(m, i, outcome) ==
    /\ BoxIdle
    /\ is_class_defined(classes, "MatchData")
    /\ i \in 1..Len(insts)
    /\ MethodReturned(m, i,
          trampoline(m, unbox_from_value(classes, insts[i], heap, "MatchData"), outcome))
    /\ UNCHANGED <<vm, classes, lastDef, insts, heap, lastCall, auxVars>>

\* The last reference to the instance i goes away.
Unroot(i) ==
    /\ BoxIdle
    /\ i \in 1..Len(insts)
    /\ insts[i].rooted
    /\ insts' = [insts EXCEPT ![i].rooted = FALSE]
    /\ UNCHANGED <<vm, classes, lastDef, heap, lastBox, lastCall, auxVars>>

\* The state after the collector reclaimed an instance.
Collected(g) ==
    /\ insts' = g.insts
    /\ heap' = g.heap

\* The collector reclaims the unreachable instance i.
Collect(i) ==
    /\ BoxIdle
    /\ i \in 1..Len(insts)
    /\ ~insts[i].rooted
    /\ ~IsCollected(insts[i])
    /\ Collected(mrb_gc_free(insts, heap, i))
    /\ UNCHANGED <<vm, classes, lastDef, lastBox, lastCall, auxVars>>

BoxNext ==
    \/ \E T \in HostTypes : Require(T)
    \/ \E c \in 1..(Cardinality(HostTypes) + 1) : Allocate(c)
    \/ \E T \in HostTypes, val \in Vals, i \in 1..MaxInsts : Box(T, val, i)
    \/ \E U \in HostTypes, i \in 1..MaxInsts : Unbox(U, i)
    \/ \E m \in MatchDataMethods, i \in 1..MaxInsts, o \in Outcomes :
          MatchDataMethod(m, i, o)
    \/ \E i \in 1..MaxInsts : Unroot(i)
    \/ \E i \in 1..MaxInsts : Collect(i)
    \/ ReturnBox

SpecBox == DefInit /\ [][BoxNext]_vars

(***************************************************************************)
(* Properties of boxing.                                                   *)
(***************************************************************************)
\* The instance o holds a host value of the type T.
HoldsValueOf(o, T) == IsBoxed(o) /\ heap[o.ptr].type = T

\* C1: every value moved into an instance by a box is released exactly once,
\* when the collector reclaims the instance that owns it: a value whose owner
\* was collected was released once, any other value never.
C1_FreeExactlyOnce ==
    \A c \in 1..Len(heap) :
        heap[c].frees = IF IsCollected(insts[heap[c].owner]) THEN 1 ELSE 0

\* C2: an instance never goes back from Boxed to Unboxed and never leaves
\* Collected, and an unbox or a MatchData method on an instance that is
\* Unboxed or Collected returns the unbox error and no reference.
C2_ForwardOnly ==
    [][ /\ Len(insts') >= Len(insts)
        /\ \A i \in 1..Len(insts) :
              /\ IsBoxed(insts[i]) => ~IsUnboxed(insts'[i])
              /\ IsCollected(insts[i]) => insts'[i] = insts[i]
        /\ ( /\ lastBox'.op \in {"unbox", "method"}
             /\ lastBox' # lastBox
             /\ \/ IsUnboxed(insts[lastBox'.inst])
                \/ IsCollected(insts[lastBox'.inst]) )
           => /\ ~lastBox'.ok
              /\ lastBox'.err = "UnboxError"
              /\ lastBox'.ref = 0
      ]_vars

\* C2 witness: a MatchData method ran on a collected instance whose slot
\* still holds the dangling pointer of a MatchData.
C2_Witness ==
    /\ lastBox.op = "method"
    /\ IsCollected(insts[lastBox.inst])
    /\ insts[lastBox.inst].ptr # 0
    /\ insts[lastBox.inst].dtype.struct_name = "MatchData"
    /\ heap[insts[lastBox.inst].ptr].frees = 1

\* C3: an unbox as T right after a successful box of a value as T into the
\* same instance succeeds with that value, and an unbox changes neither the
\* instance, which stays Boxed, nor the value or its owner.
C3_BoxUnboxRoundTrip ==
    [][ /\ ( /\ lastBox.op = "box"
             /\ lastBox.ok
             /\ lastBox'.op = "unbox"
             /\ lastBox'.inst = lastBox.inst
             /\ lastBox'.type = lastBox.type )
           => /\ lastBox'.ok
              /\ lastBox'.val = lastBox.val
              /\ IsBoxed(insts'[lastBox'.inst])
              /\ heap'[lastBox'.ref].owner = lastBox'.inst
        /\ lastBox'.op = "unbox" /\ lastBox' # lastBox
           => insts' = insts /\ heap' = heap
      ]_vars

\* C3 witness: an unbox returned the value of the second box of an instance
\* that was boxed twice with different values.
C3_Witness ==
    /\ lastBox.op = "unbox"
    /\ lastBox.ok
    /\ lastBox.ref = 2
    /\ Len(heap) = 2
    /\ heap[1].owner = heap[2].owner
    /\ heap[1].val # heap[2].val
    /\ lastBox.val = heap[2].val

\* C4: an unbox as U of an instance that holds a value of another type
\* returns the type-mismatch error and no reference, and a MatchData method
\* on a self that holds no MatchData returns that error after the unbox
\* alone.
C4_UnboxTypeMismatch ==
    /\ ( /\ lastBox.op = "unbox"
         /\ IsBoxed(insts[lastBox.inst])
         /\ ~HoldsValueOf(insts[lastBox.inst], lastBox.type) )
       => /\ ~lastBox.ok
          /\ lastBox.err = "UnboxError"
          /\ lastBox.ref = 0
    /\ ( /\ lastBox.op = "method"
         /\ ~HoldsValueOf(insts[lastBox.inst], "MatchData") )
       => /\ ~lastBox.ok
          /\ lastBox.err = "UnboxError"
          /\ lastBox.ref = 0
          /\ lastBox.trace = << "unbox_from_value" >>

\* C4 witness: a MatchData method that takes an argument ran on an instance
\* that holds a Container.
C4_Witness ==
    /\ lastBox.op = "method"
    /\ lastBox.method \in ConvertsArg
    /\ HoldsValueOf(insts[lastBox.inst], "Container")
    /\ ~lastBox.ok

(***************************************************************************)
(* The call boundary: Value::funcall and ClassRegistry::new_instance.      *)
(***************************************************************************)
MRB_FUNCALL_ARGC_MAX == 16

NoArgCountError == [is_err |-> FALSE, given |-> 0, max |-> 0]

\* An argument count check that also rejects a full argument list.
Mut_ArgCountError_try_from(n) ==
    IF n >= MRB_FUNCALL_ARGC_MAX
    THEN [is_err |-> TRUE, given |-> n, max |-> MRB_FUNCALL_ARGC_MAX]
    ELSE NoArgCountError

\* impl TryFrom<&[Value]> for ArgCountError, on a slice of n arguments.
ArgCountError_try_from(n) ==
    IF n > MRB_FUNCALL_ARGC_MAX
    THEN [is_err |-> TRUE, given |-> n, max |-> MRB_FUNCALL_ARGC_MAX]
    ELSE NoArgCountError

\* The arena savepoint: acquired on call entry, released on every exit.
ArenaSave == "mrb_gc_arena_save"

ArenaRestore == "mrb_gc_arena_restore"

ArenaCalls == {ArenaSave, ArenaRestore}

\* The exceptions a VM call raises in the model (tests::funcall_type_error,
\* tests::funcall_method_not_exists).
Exceptions ==
    { [class |-> "TypeError", msg |-> "nil cannot be converted to String"],
      [class |-> "NoMethodError", msg |-> "undefined method 'garbage_method_name'"] }

NoException == [class |-> "", msg |-> ""]

\* What a protected call hands back: Ok(value) or Err(exception).
ProtectOk(tt) == [ran |-> TRUE, ok |-> TRUE, tt |-> tt, exc |-> NoException]

ProtectErr(e) == [ran |-> TRUE, ok |-> FALSE, tt |-> "MRB_TT_EXCEPTION", exc |-> e]

\* No protected call was made.
NoProtect == [ran |-> FALSE, ok |-> TRUE, tt |-> "", exc |-> NoException]

ProtectResults ==
    {ProtectOk("MRB_TT_OBJECT"), ProtectOk("MRB_TT_UNDEF")}
        \cup {ProtectErr(e) : e \in Exceptions}

\* The paths of a funcall past the argument count check: interning fails,
\* the FFI boundary fails, or the protected call runs.
FuncallOutcomes ==
    {[fail |-> f, pr |-> NoProtect] : f \in {"intern", "ffi"}}
        \cup {[fail |-> "none", pr |-> p] : p \in ProtectResults}

\* Value::ruby_type: MRB_TT_UNDEF is the internal-only unreachable tag.
ruby_type(tt) == IF tt = "MRB_TT_UNDEF" THEN "Unreachable" ELSE "Object"

\* Value::is_unreachable
is_unreachable(tt) == ruby_type(tt) = "Unreachable"

ResultOk(tt) ==
    [ok |-> TRUE, err |-> "", given |-> 0, max |-> 0, name |-> "", message |-> "",
     value |-> tt]

ResultErr(err, name, message) ==
    [ok |-> FALSE, err |-> err, given |-> 0, max |-> 0, name |-> name,
     message |-> message, value |-> ""]

ResultArgCount(ace) ==
    [ok |-> FALSE, err |-> "ArgCountError", given |-> ace.given, max |-> ace.max,
     name |-> "ArgumentError", message |-> "Too many arguments", value |-> ""]

\* exception_handler::last_error: the error built from the exception.
last_error(e) == ResultErr("Exception", e.class, e.msg)

\* The return of a call that holds an arena savepoint: the savepoint is
\* dropped, which restores the arena.
CallResult(v, r, pr, log) ==
    [vm |-> v, res |-> r, pr |-> pr, log |-> Append(log, ArenaRestore)]

\* A funcall that hands an unreachable value to its caller.
Mut_funcall_result(v, pr, log) ==
    IF pr.ok
    THEN CallResult(v, ResultOk(pr.tt), pr, log)
    ELSE CallResult(v, last_error(pr.exc), pr, Append(log, "last_error"))

\* A funcall that hands the exception object back as its value.
Mut_funcall_result_ok(v, pr, log) ==
    IF pr.ok
    THEN IF is_unreachable(pr.tt)
         THEN CallResult(v, ResultErr("Fatal", "fatal", "Unreachable Ruby value"), pr, log)
         ELSE CallResult(v, ResultOk(pr.tt), pr, log)
    ELSE CallResult(v, ResultOk(pr.tt), pr, log)

\* Value::funcall: the match on the result of the protected call.
funcall_result(v, pr, log) ==
    IF pr.ok
    THEN IF is_unreachable(pr.tt)
         THEN CallResult(v, ResultErr("Fatal", "fatal", "Unreachable Ruby value"), pr, log)
         ELSE CallResult(v, ResultOk(pr.tt), pr, log)
    ELSE CallResult(v, last_error(pr.exc), pr, Append(log, "last_error"))

\* Value::funcall from the interning of the method name on.
funcall_call(v, func, outcome, log) ==
    IF outcome.fail = "intern"
    THEN CallResult(v, ResultErr("Exception", "fatal", "intern"), NoProtect,
                    Append(log, "mrb_intern"))
    ELSE IF outcome.fail = "ffi"
    THEN CallResult(mrb_intern(v, func),
                    ResultErr("Exception", "fatal", "InterpreterExtractError"),
                    NoProtect, Append(log, "mrb_intern"))
    ELSE funcall_result(mrb_intern(v, func), outcome.pr,
                        log \o << "mrb_intern", "protect::funcall" >>)

\* A funcall that returns the argument count error without dropping the
\* arena savepoint.
Mut_funcall_checked(v, func, ace, outcome) ==
    IF ace.is_err
    THEN [vm |-> v, res |-> ResultArgCount(ace), pr |-> NoProtect, log |-> << ArenaSave >>]
    ELSE funcall_call(v, func, outcome, << ArenaSave >>)

\* Value::funcall with n arguments; ace is the result of the argument count
\* check, made after the arena savepoint is created.
funcall_checked(v, func, ace, outcome) ==
    IF ace.is_err
    THEN CallResult(v, ResultArgCount(ace), NoProtect, << ArenaSave >>)
    ELSE funcall_call(v, func, outcome, << ArenaSave >>)

\* Value::funcall
funcall(v, func, n, outcome) ==
    funcall_checked(v, func, ArgCountError_try_from(n), outcome)

\* The paths of Value::is_range: the FFI boundary fails or the protected
\* call runs and answers a range, no range, or raises.
IsRangeOutcomes ==
    {[fail |-> "ffi", pr |-> NoProtect]}
        \cup {[fail |-> "none", pr |-> p] :
                p \in {ProtectOk("range"), ProtectOk("none")}
                        \cup {ProtectErr(e) : e \in Exceptions}}

\* Value::is_range
is_range(v, outcome) ==
    IF outcome.fail = "ffi"
    THEN CallResult(v, ResultErr("Exception", "fatal", "InterpreterExtractError"),
                    NoProtect, << ArenaSave >>)
    ELSE IF outcome.pr.ok
    THEN CallResult(v, ResultOk(outcome.pr.tt), outcome.pr,
                    << ArenaSave, "protect::is_range" >>)
    ELSE CallResult(v, last_error(outcome.pr.exc), outcome.pr,
                    << ArenaSave, "protect::is_range", "last_error" >>)

\* What the VM does when initialize runs inside mrb_obj_new: it returns, or
\* it raises, and the raise leaves through the native frame by a jump to the
\* innermost handler or ends the process when there is none.
InitializeOutcomes == {"returns", "longjmp", "abort"}

NoInstance == [some |-> FALSE, h |-> NullHandle, unwound |-> "", log |-> << >>]

\* A new_instance that allocates an Object when the class does not resolve.
Mut_new_instance_of(v, r, init) ==
    [ some |-> init = "returns", h |-> IF r.h # NullHandle THEN r.h ELSE ObjectClass,
      unwound |-> IF init = "returns" THEN "" ELSE init, log |-> << "mrb_obj_new" >> ]

\* ClassRegistry::new_instance once the spec of T is found: the class is
\* resolved and mrb_obj_new is called, unprotected, with all the arguments.
new_instance_of(v, r, init) ==
    IF r.h # NullHandle
    THEN [ some |-> init = "returns", h |-> r.h,
           unwound |-> IF init = "returns" THEN "" ELSE init,
           log |-> << "mrb_obj_new" >> ]
    ELSE NoInstance

\* ClassRegistry::new_instance
new_instance(reg, v, T, init) ==
    IF class_spec(reg, T) = NoSpec
    THEN NoInstance
    ELSE new_instance_of(v, Resolve(v, class_spec(reg, T)), init)

\* ClassRegistry::class_of once the spec of T is found.
class_of_resolved(r) ==
    IF r.h # NullHandle
    THEN [some |-> TRUE, h |-> r.h, unwound |-> "", log |-> << "mrb_sys_class_value" >>]
    ELSE NoInstance

\* ClassRegistry::class_of
class_of(reg, v, T) ==
    IF class_spec(reg, T) = NoSpec
    THEN NoInstance
    ELSE class_of_resolved(Resolve(v, class_spec(reg, T)))

CallIdle == lastCall.op = "none"

\* The caller takes the result of the call.
ReturnCall ==
    /\ ~CallIdle
    /\ lastCall' = NoCall
    /\ UNCHANGED <<vm, classes, lastDef, boxVars, auxVars>>

\* The result of a call that holds an arena savepoint, as the caller sees it.
CallReturned(op, n, r) ==
    lastCall' = [ op |-> op, type |-> "", nargs |-> n, ok |-> r.res.ok, err |-> r.res.err,
                  given |-> r.res.given, max |-> r.res.max, name |-> r.res.name,
                  message |-> r.res.message, value |-> r.res.value, h |-> NullHandle,
                  pr |-> r.pr, log |-> r.log ]

\* The state after a funcall with n arguments that returned r.
FuncallReturned(n, r) ==
    /\ vm' = r.vm
    /\ CallReturned("funcall", n, r)

\* value.funcall(interp, func, args, None) with n arguments.
Funcall(func, n, outcome) ==
    /\ CallIdle
    /\ FuncallReturned(n, funcall(vm, func, n, outcome))
    /\ UNCHANGED <<classes, lastDef, boxVars, auxVars>>

\* value.is_range(interp, len)
IsRange(outcome) ==
    /\ CallIdle
    /\ CallReturned("is_range", 0, is_range(vm, outcome))
    /\ UNCHANGED <<vm, classes, lastDef, boxVars, auxVars>>

\* The result of class_of or new_instance, as the caller sees it.
RegistryReturned(op, T, n, r) ==
    lastCall' = [NoCall EXCEPT !.op = op, !.type = T, !.nargs = n, !.ok = r.some,
                               !.err = r.unwound, !.h = r.h, !.log = r.log]

\* The state after a new_instance with n arguments that returned r: the
\* instance is allocated before initialize runs.
NewInstanceReturned(T, n, r) ==
    /\ r.h # NullHandle => Len(insts) < MaxInsts
    /\ insts' = IF r.h # NullHandle THEN Append(insts, mrb_instance_alloc(vm, r.h))
                ELSE insts
    /\ RegistryReturned("new_instance", T, n, r)

\* interp.new_instance::<T>(args) with n arguments.
NewInstance(T, n, init) ==
    /\ CallIdle
    /\ NewInstanceReturned(T, n, new_instance(classes, vm, T, init))
    /\ UNCHANGED <<vm, classes, lastDef, heap, lastBox, auxVars>>

\* interp.class_of::<T>()
ClassOf(T) ==
    /\ CallIdle
    /\ RegistryReturned("class_of", T, 0, class_of(classes, vm, T))
    /\ UNCHANGED <<vm, classes, lastDef, boxVars, auxVars>>

\* The registration of a host type between calls.
RequireType(T) == CallIdle /\ Require(T)

\* A def_class between calls, before the class is defined in the VM.
RegisterType(T) == CallIdle /\ DefClass(T)

CallNext ==
    \/ \E T \in HostTypes : RequireType(T)
    \/ \E T \in HostTypes : RegisterType(T)
    \/ \E f \in Names, n \in 0..MaxArgs, o \in FuncallOutcomes : Funcall(f, n, o)
    \/ \E o \in IsRangeOutcomes : IsRange(o)
    \/ \E T \in HostTypes, n \in 0..MaxArgs, i \in InitializeOutcomes : NewInstance(T, n, i)
    \/ \E T \in HostTypes : ClassOf(T)
    \/ ReturnCall

SpecCall == DefInit /\ [][CallNext]_vars

(***************************************************************************)
(* Properties of the call boundary.                                        *)
(***************************************************************************)
\* C9 as amended: a funcall with more than 16 arguments returns the argument
\* count error with given = the number of arguments and max = 16, and on that
\* path the only calls of the VM are the ones of the arena savepoint: the VM
\* stays as it was; a funcall with 16 arguments or fewer returns no argument
\* count error.
C9_FuncallArgCount ==
    [][ lastCall'.op = "funcall" =>
          /\ lastCall'.nargs > 16 =>
                /\ ~lastCall'.ok
                /\ lastCall'.err = "ArgCountError"
                /\ lastCall'.given = lastCall'.nargs
                /\ lastCall'.max = 16
                /\ \A k \in 1..Len(lastCall'.log) : lastCall'.log[k] \in ArenaCalls
                /\ vm' = vm
          /\ lastCall'.nargs <= 16 => lastCall'.err # "ArgCountError"
      ]_vars

\* C9 witness: a funcall with 17 arguments returned the argument count error.
C9_Witness ==
    /\ lastCall.op = "funcall"
    /\ lastCall.nargs = 17
    /\ lastCall.err = "ArgCountError"

\* C9 as stated: a funcall with more than 16 arguments makes no call of the VM
\* at all.
C9_NoVmCallAtAll ==
    (lastCall.op = "funcall" /\ lastCall.nargs > 16) => lastCall.log = << >>

\* C10: a new_instance with more than 16 arguments does not call the VM's
\* mrb_obj_new.
C10_NewInstanceCapsArgs ==
    (lastCall.op = "new_instance" /\ lastCall.nargs > 16)
        => \A k \in 1..Len(lastCall.log) : lastCall.log[k] # "mrb_obj_new"

\* C11: an exception the VM raises inside a call made from native code is
\* returned as a typed error: no funcall and no new_instance ends with the
\* raise leaving through the native frame.
C11_RaiseIsIntercepted ==
    lastCall.op \in {"funcall", "is_range", "new_instance", "class_of"}
        => lastCall.err \notin {"longjmp", "abort"}

\* C12: a funcall whose protected call raised returns Err with the class name
\* and the message of the exception, and one whose call returned an ordinary
\* value returns Ok with that value.
C12_FuncallException ==
    (lastCall.op = "funcall" /\ lastCall.pr.ran) =>
        /\ ~lastCall.pr.ok =>
              /\ ~lastCall.ok
              /\ lastCall.name = lastCall.pr.exc.class
              /\ lastCall.message = lastCall.pr.exc.msg
        /\ (lastCall.pr.ok /\ lastCall.pr.tt # "MRB_TT_UNDEF") =>
              /\ lastCall.ok
              /\ lastCall.value = lastCall.pr.tt

\* C12 witness: a funcall whose call raised a TypeError returned it.
C12_Witness ==
    /\ lastCall.op = "funcall"
    /\ lastCall.pr.exc.class = "TypeError"
    /\ lastCall.name = "TypeError"
    /\ lastCall.message = "nil cannot be converted to String"

\* C13: a funcall never returns Ok with a value of the unreachable tag: a
\* protected call that hands back such a value makes the funcall return Fatal.
C13_NoUnreachableResult ==
    lastCall.op = "funcall" =>
        /\ ~(lastCall.ok /\ lastCall.value = "MRB_TT_UNDEF")
        /\ (lastCall.pr.ran /\ lastCall.pr.ok /\ lastCall.pr.tt = "MRB_TT_UNDEF") =>
              (~lastCall.ok /\ lastCall.err = "Fatal")

\* C13 witness: the protected call of a funcall handed back an unreachable
\* value.
C13_Witness ==
    /\ lastCall.op = "funcall"
    /\ lastCall.pr.ran
    /\ lastCall.pr.tt = "MRB_TT_UNDEF"
    /\ lastCall.err = "Fatal"

\* The calls of the log that are the call c.
CallsOf(log, c) == {k \in 1..Len(log) : log[k] = c}

\* C15: on every exit path of funcall and of is_range the arena savepoint
\* acquired first is released last, once.
C15_ArenaReleased ==
    lastCall.op \in {"funcall", "is_range"} =>
        /\ Len(lastCall.log) >= 2
        /\ CallsOf(lastCall.log, ArenaSave) = {1}
        /\ CallsOf(lastCall.log, ArenaRestore) = {Len(lastCall.log)}

\* C15 witness: an is_range whose protected call raised, and before it a
\* path of funcall that failed at the FFI boundary, are reachable; the
\* witness is the is_range.
C15_Witness ==
    /\ lastCall.op = "is_range"
    /\ ~lastCall.ok
    /\ lastCall.name = "NoMethodError"
    /\ lastCall.log = << ArenaSave, "protect::is_range", "last_error", ArenaRestore >>

\* The host type T is registered and its spec resolves in the VM.
RegisteredAndResolves(T) ==
    classes[T] # NoSpec /\ ChainDefined(vm, classes[T])

\* C18: class_of and new_instance return None, with no call of the VM that
\* allocates and no instance allocated, when the type is not registered or
\* its spec does not resolve; they return Some only when it is registered
\* and resolves, and class_of returns Some whenever it is.
C18_NoneWhenUnregistered ==
    [][ lastCall'.op \in {"class_of", "new_instance"} =>
          /\ lastCall'.ok => RegisteredAndResolves(lastCall'.type)
          /\ ~RegisteredAndResolves(lastCall'.type) =>
                /\ ~lastCall'.ok
                /\ lastCall'.err = ""
                /\ lastCall'.log = << >>
                /\ insts' = insts
                /\ vm' = vm
          /\ (lastCall'.op = "class_of" /\ RegisteredAndResolves(lastCall'.type))
                => lastCall'.ok /\ lastCall'.h = Resolve(vm, classes[lastCall'.type]).h
      ]_vars

\* C18 witness: a new_instance of a type that is registered and whose class
\* is not defined in the VM returned None.
C18_Witness ==
    /\ lastCall.op = "new_instance"
    /\ classes[lastCall.type] # NoSpec
    /\ ~ChainDefined(vm, classes[lastCall.type])
    /\ ~lastCall.ok


(***************************************************************************)
(* The registration entry points and the registry's own operations.        *)
(***************************************************************************)
\* The specs a caller may hand to def_class.
RegistrySpecs ==
    {HostSpec(T) : T \in HostTypes} \cup {NewSpec("class", n, NoScope, "none") : n \in Names}

\* ModuleRegistry::def_module: insert into State::modules.
def_module(mods, T, s) == [mods EXCEPT ![T] = s]

\* ModuleRegistry::is_module_defined
is_module_defined(mods, T) == mods[T] # NoSpec

\* The methods matchdata::mruby::init adds to the builder.
MatchDataInitMethods ==
    { [type |-> "Instance", name |-> n, fn |-> 1] :
        n \in { "begin", "captures", "[]", "length", "named_captures", "names",
                "offset", "post_match", "pre_match", "regexp", "size", "string",
                "to_a", "to_s", "end" } }

\* The methods SecureRandomFile::require adds to the builder.
SecureRandomMethods ==
    { [type |-> "Class", name |-> n, fn |-> 2] :
        n \in { "alphanumeric", "base64", "hex", "random_bytes", "random_number",
                "uuid" } }

\* What an entry point leaves behind: the VM, both registries, its result and
\* the VM calls it made.
RequireResult(v, reg, mods, res, calls) ==
    [vm |-> v, classes |-> reg, modules |-> mods, res |-> res, calls |-> calls]

\* matchdata::mruby::init after define() returned d: def_class, then the eval
\* of matchdata.rb, whose error is propagated.
matchdata_init_defined(reg, mods, d, evalOk) ==
    IF ~d.res.ok
    THEN RequireResult(d.vm, reg, mods, d.res, d.calls)
    ELSE RequireResult(d.vm, def_class(reg, "MatchData", HostSpec("MatchData")), mods,
                       IF evalOk THEN NoError
                       ELSE [ok |-> FALSE, err |-> "Exception", what |-> "eval",
                             name |-> "matchdata.rb"],
                       Append(d.calls, VmCall("eval", "matchdata.rb", 0)))

\* An init without the is_class_defined check.
Mut_matchdata_init(reg, mods, v, rejected, evalOk) ==
    matchdata_init_defined(reg, mods,
        class_Builder_define(v, ClassBuilder(HostSpec("MatchData"), TRUE,
                                             MatchDataInitMethods), rejected, {}),
        evalOk)

\* matchdata::mruby::init
matchdata_init(reg, mods, v, rejected, evalOk) ==
    IF is_class_defined(reg, "MatchData")
    THEN RequireResult(v, reg, mods, NoError, << >>)
    ELSE matchdata_init_defined(reg, mods,
            class_Builder_define(v, ClassBuilder(HostSpec("MatchData"), TRUE,
                                                 MatchDataInitMethods), rejected, {}),
            evalOk)

\* SecureRandomFile::require after define() returned d: def_module.
securerandom_defined(reg, mods, s, d) ==
    IF ~d.res.ok
    THEN RequireResult(d.vm, reg, mods, d.res,
                       << VmCall("mrb_intern", s.name, 0) >> \o d.calls)
    ELSE RequireResult(d.vm, reg, def_module(mods, "SecureRandom", s), NoError,
                       << VmCall("mrb_intern", s.name, 0) >> \o d.calls)

\* SecureRandomFile::require
securerandom_require(reg, mods, v, rejected) ==
    IF is_module_defined(mods, "SecureRandom")
    THEN RequireResult(v, reg, mods, NoError, << >>)
    ELSE securerandom_defined(reg, mods,
            NewSpec("module", "SecureRandom", NoScope, "none"),
            module_Builder_define(mrb_intern(v, "SecureRandom"),
                ModuleBuilder(NewSpec("module", "SecureRandom", NoScope, "none"),
                              SecureRandomMethods), rejected, {}))

\* The state after the entry point of the feature T returned r.
Required(T, r) ==
    /\ vm' = r.vm
    /\ classes' = r.classes
    /\ modules' = r.modules
    /\ lastDef' = [NoDef EXCEPT !.op = "require", !.type = T, !.res = r.res,
                                !.calls = r.calls]
    /\ UNCHANGED <<boxVars, lastCall, frames, arena, input, output>>

\* A call of matchdata::mruby::init.
MatchDataInit(rejected, evalOk) ==
    /\ Idle
    /\ Required("MatchData", matchdata_init(classes, modules, vm, rejected, evalOk))

\* A call of SecureRandomFile::require.
SecureRandomRequire(rejected) ==
    /\ Idle
    /\ Required("SecureRandom", securerandom_require(classes, modules, vm, rejected))

\* interp.def_class::<T>(s) with a spec of the caller's choice.
DefClassSpec(T, s) ==
    /\ Idle
    /\ classes' = def_class(classes, T, s)
    /\ lastDef' = [NoDef EXCEPT !.op = "def_class", !.type = T, !.spec = s]
    /\ UNCHANGED <<vm, boxVars, lastCall, auxVars>>

\* interp.class_spec::<T>()
ClassSpec(T) ==
    /\ Idle
    /\ lastDef' = [NoDef EXCEPT !.op = "class_spec", !.type = T,
                                !.spec = class_spec(classes, T)]
    /\ UNCHANGED <<vm, classes, boxVars, lastCall, auxVars>>

\* interp.is_class_defined::<T>(): the answer is recorded as the result.
IsClassDefined(T) ==
    /\ Idle
    /\ lastDef' = [NoDef EXCEPT !.op = "is_class_defined", !.type = T,
                                !.res = IF is_class_defined(classes, T) THEN NoError
                                        ELSE NotDefinedError("class", T)]
    /\ UNCHANGED <<vm, classes, boxVars, lastCall, auxVars>>

RegistryNext ==
    \/ \E rej \in BindOutcomes(MatchDataInitMethods), evalOk \in BOOLEAN :
          MatchDataInit(rej, evalOk)
    \/ \E rej \in BindOutcomes(SecureRandomMethods) : SecureRandomRequire(rej)
    \/ \E T \in HostTypes, s \in RegistrySpecs : DefClassSpec(T, s)
    \/ \E T \in HostTypes : ClassSpec(T)
    \/ \E T \in HostTypes : IsClassDefined(T)
    \/ Return

SpecRegistry == DefInit /\ [][RegistryNext]_vars

\* The feature T is registered: its type has an entry in its registry.
FeatureRegistered(reg, mods, T) ==
    IF T \in ModuleTypes THEN is_module_defined(mods, T) ELSE is_class_defined(reg, T)

\* C16: an entry point that is invoked when its feature is registered, as it
\* is after a successful first invocation, returns Ok without a single VM
\* call and leaves the VM and both registries as they were; the invocation
\* that finds the feature unregistered and succeeds calls the VM, leaves the
\* type defined in it and registers it.
C16_RequireTwiceNoOp ==
    [][ lastDef'.op = "require" =>
          /\ FeatureRegistered(classes, modules, lastDef'.type) =>
                /\ lastDef'.res.ok
                /\ lastDef'.calls = << >>
                /\ vm' = vm
                /\ classes' = classes
                /\ modules' = modules
          /\ ~FeatureRegistered(classes, modules, lastDef'.type) /\ lastDef'.res.ok =>
                /\ lastDef'.calls # << >>
                /\ mrb_class_defined(vm', lastDef'.type)
                /\ FeatureRegistered(classes', modules', lastDef'.type) ]_vars

\* A second invocation of SecureRandomFile::require has returned: the module
\* is registered and defined in the VM, and the invocation made no VM call.
C16_Witness ==
    /\ lastDef.op = "require"
    /\ lastDef.type = "SecureRandom"
    /\ lastDef.calls = << >>
    /\ is_module_defined(modules, "SecureRandom")
    /\ mrb_class_defined(vm, "SecureRandom")
    /\ is_class_defined(classes, "MatchData")

\* C17: the registry starts empty and holds one spec per host type; the entry
\* of T changes only in a def_class::<T> (the one of an entry point included),
\* after which it is the spec that call was given, whatever was there before;
\* class_spec::<T> returns the entry of T and is_class_defined::<T> is true
\* exactly when there is one; neither changes the registry.
C17_RegistryPerType ==
    /\ \A T \in HostTypes : class_spec(classes, T) = NoSpec
    /\ [][ /\ classes' \in [HostTypes -> RegistrySpecs \cup {NoSpec}]
           /\ \A T \in HostTypes :
                 classes'[T] # classes[T] =>
                     /\ lastDef'.op \in {"def_class", "require"}
                     /\ lastDef'.type = T
           /\ lastDef'.op = "def_class" => classes'[lastDef'.type] = lastDef'.spec
           /\ lastDef'.op = "class_spec" =>
                 /\ lastDef'.spec = classes[lastDef'.type]
                 /\ classes' = classes
           /\ lastDef'.op = "is_class_defined" =>
                 /\ lastDef'.res.ok <=> classes[lastDef'.type] # NoSpec
                 /\ classes' = classes ]_vars

\* A def_class::<Container> with a spec other than the one of Container has
\* returned while MatchData keeps its own entry.
C17_Witness ==
    /\ lastDef.op = "def_class"
    /\ lastDef.type = "Container"
    /\ lastDef.spec = NewSpec("class", "Bar", NoScope, "none")
    /\ class_spec(classes, "Container") = lastDef.spec
    /\ class_spec(classes, "MatchData") = HostSpec("MatchData")


(***************************************************************************)
(* Superclasses: Builder::with_super_class and the class define() creates. *)
(***************************************************************************)
\* What with_super_class returns: Ok(builder) or the error, the VM after it
\* and the VM calls it made.
SuperClassResult(b, res, v, calls) ==
    [builder |-> b, res |-> res, vm |-> v, calls |-> calls]

\* with_super_class after the resolve of the spec registered for T returned r.
with_super_class_resolved(b, r, classname) ==
    IF r.h # NullHandle
    THEN SuperClassResult([b EXCEPT !.super_class = r.h], NoError, r.vm, r.calls)
    ELSE SuperClassResult(b, NotDefinedError("super_class", classname), r.vm, r.calls)

\* A with_super_class that looks the class up in the VM by the name it was
\* given and never asks the registry.
Mut_with_super_class(reg, v, b, T, classname) ==
    with_super_class_resolved(b,
        class_Rclass_resolve(v, NewSpec("class", classname, NoScope, "none")), classname)

\* class::Builder::with_super_class::<T, _>(classname)
with_super_class(reg, v, b, T, classname) ==
    IF class_spec(reg, T) = NoSpec
    THEN SuperClassResult(b, NotDefinedError("super_class", classname), v, << >>)
    ELSE with_super_class_resolved(b, class_Rclass_resolve(v, class_spec(reg, T)),
                                   classname)

\* The state after Builder::for_spec(s).with_super_class::<T, _>(..)?.define()
\* where with_super_class returned w: its error, else the result d of define().
SubclassDefined(T, w, d) ==
    IF ~w.res.ok
    THEN /\ vm' = w.vm
         /\ lastDef' = [NoDef EXCEPT !.op = "with_super_class", !.type = T,
                                     !.spec = w.builder.spec, !.res = w.res,
                                     !.calls = w.calls]
    ELSE /\ Len(d.vm.objs) <= MaxDefObjs
         /\ vm' = d.vm
         /\ lastDef' = [ op |-> "define", type |-> T, spec |-> w.builder.spec,
                         meths |-> {}, tt |-> FALSE, super |-> DefinedSuper(w.builder),
                         res |-> d.res, h |-> d.h, calls |-> w.calls \o d.calls,
                         bound |-> d.bound ]

\* define() of the builder with_super_class returned.
SubclassDefineOf(T, w) ==
    SubclassDefined(T, w, class_Builder_define(w.vm, w.builder, NoMethod, {}))

\* class::Builder::for_spec(s).with_super_class::<T, _>(T)?.define()
DefineSubclass(s, T) ==
    /\ Idle
    /\ SubclassDefineOf(T, with_super_class(classes, vm, class_Builder_for_spec(s), T, T))
    /\ UNCHANGED <<classes, boxVars, lastCall, auxVars>>

SuperNext ==
    \/ \E n \in Names \cup HostTypes : VmEval("class", ObjectClass, n, MaxDefObjs)
    \/ \E T \in HostTypes, s \in RegistrySpecs : DefClassSpec(T, s)
    \/ \E s \in RegistrySpecs, T \in HostTypes : DefineSubclass(s, T)
    \/ \E s \in RegistrySpecs : ClassBuilderDefine(s, FALSE, {}, NoMethod, {})
    \/ Return

SpecSuper == DefInit /\ [][SuperNext]_vars

\* C19: with_super_class::<T> fails with NotDefinedError for the superclass
\* and the classname it was given, leaving the VM as it was, when T is not
\* registered or its spec does not resolve (a class of that name that a script
\* defined does not count while T is unregistered); otherwise it returns the
\* builder with the object the spec of T resolves to as its superclass.
C19_SuperClassNotDefined ==
    [][ lastDef'.op \in {"with_super_class", "define"} /\ lastDef'.type # "" =>
          IF RegisteredAndResolves(lastDef'.type)
          THEN /\ lastDef'.op = "define"
               /\ << lastDef'.super >> \in Chains(vm, classes[lastDef'.type])
          ELSE /\ lastDef'.op = "with_super_class"
               /\ lastDef'.res = NotDefinedError("super_class", lastDef'.type)
               /\ vm' = vm ]_vars

\* with_super_class::<Container> has failed while a script-defined class
\* Container is in the VM and Container is not registered.
C19_Witness ==
    /\ lastDef.op = "with_super_class"
    /\ lastDef.type = "Container"
    /\ ~lastDef.res.ok
    /\ mrb_class_defined(vm, "Container")
    /\ ~is_class_defined(classes, "Container")

RECURSIVE IsDescendant(_, _, _)
\* The class c is the class a or inherits from it: Class#<= over the
\* superclass links of the VM.
IsDescendant(v, c, a) ==
    IF c = NullHandle THEN FALSE
    ELSE IF c = a THEN TRUE
    ELSE IsDescendant(v, v.objs[c].super, a)

\* C20: a class that define() creates after with_super_class::<S> has the
\* object S's spec resolves to as its superclass, so it descends from it and
\* its instances are instances of it; a class that define() creates without
\* with_super_class has Object as its superclass.
C20_SubclassOfSuper ==
    [][ /\ lastDef'.op = "define"
        /\ lastDef'.res.ok
        /\ lastDef'.spec.kind = "class"
        /\ ~ChainDefined(vm, lastDef'.spec)
        => IF lastDef'.type # ""
           THEN /\ << vm'.objs[lastDef'.h].super >> \in Chains(vm, classes[lastDef'.type])
                /\ IsDescendant(vm', lastDef'.h, vm'.objs[lastDef'.h].super)
                /\ vm'.objs[lastDef'.h].super # lastDef'.h
           ELSE vm'.objs[lastDef'.h].super = ObjectClass ]_vars

\* define() has created the class Foo after with_super_class::<Container>:
\* its superclass is the class Container, which is not Object.
C20_Witness ==
    /\ lastDef.op = "define"
    /\ lastDef.type = "Container"
    /\ lastDef.res.ok
    /\ lastDef.spec.name = "Foo"
    /\ CallsDefine(lastDef.calls)
    /\ vm.objs[lastDef.h].super = ConstGet(vm, ObjectClass, "Container")
    /\ vm.objs[lastDef.h].super # ObjectClass


(***************************************************************************)
(* Nested funcall: a funcall whose protected call runs native code that    *)
(* calls funcall.  frames holds the funcalls in progress, innermost last;  *)
(* arena is the index of the GC arena.  The paths of a funcall that return *)
(* before the protected call are the ones of Funcall above.                *)
(***************************************************************************)
\* No funcall has returned into the native code of this level so far.
NoInner == [done |-> FALSE, ok |-> TRUE, name |-> "", handled |-> FALSE]

\* A funcall that leans on the arena savepoint of its caller.
Mut_funcall_enter(fs, a) ==
    Append(fs, [saved |-> IF fs = << >> THEN a ELSE fs[Len(fs)].saved,
                raised |-> [class |-> "", msg |-> ""],
                inner |-> [done |-> FALSE, ok |-> TRUE, name |-> "", handled |-> FALSE]])

\* Value::funcall up to the protected call: create_arena_savepoint saves the
\* index of the arena for this call.
funcall_enter(fs, a) ==
    Append(fs, [saved |-> a, raised |-> NoException, inner |-> NoInner])

\* protect::funcall of the frame f: Err(exception) when the code it ran let
\* an exception through, else Ok(value).
protect_funcall(f, tt) ==
    IF f.raised = NoException THEN ProtectOk(tt) ELSE ProtectErr(f.raised)

\* What the native code of the caller holds after the funcall of frame f
\* returned r to it.
InnerResult(f, r) ==
    [done |-> TRUE, ok |-> r.res.ok, name |-> r.res.name,
     handled |-> f.inner.done /\ ~f.inner.ok]

\* The frames after the innermost one returned r: its caller holds the result.
funcall_leave(fs, r) ==
    IF Len(fs) = 1 THEN << >>
    ELSE [SubSeq(fs, 1, Len(fs) - 1) EXCEPT
            ![Len(fs) - 1].inner = InnerResult(fs[Len(fs)], r)]

\* The state after the innermost funcall returned r: the savepoint is dropped,
\* which restores the arena to the saved index.
FuncallLeft(r) ==
    /\ arena' = frames[Len(frames)].saved
    /\ frames' = funcall_leave(frames, r)
    /\ IF Len(frames) = 1 THEN CallReturned("funcall", 0, r) ELSE UNCHANGED lastCall

\* value.funcall(..) is called, by the host or by native code that the
\* protected call of the innermost funcall runs.
FuncallEnter(func) ==
    /\ CallIdle
    /\ Len(frames) < MaxDepth
    /\ frames # << >> => frames[Len(frames)].raised = NoException
    /\ frames' = funcall_enter(frames, arena)
    /\ vm' = mrb_intern(vm, func)
    /\ UNCHANGED <<classes, lastDef, boxVars, lastCall, modules, arena, input, output>>

\* A value is created and protected on the GC arena.
ArenaPush ==
    /\ CallIdle
    /\ arena < MaxArena
    /\ frames # << >> => frames[Len(frames)].raised = NoException
    /\ arena' = arena + 1
    /\ UNCHANGED <<vm, classes, lastDef, boxVars, lastCall, modules, frames, input, output>>

\* The code the innermost protected call runs raises, or re-raises the error
\* of a funcall it made.
VmRaise(e) ==
    /\ frames # << >>
    /\ frames[Len(frames)].raised = NoException
    /\ frames' = [frames EXCEPT ![Len(frames)].raised = e]
    /\ UNCHANGED <<vm, classes, lastDef, boxVars, lastCall, modules, arena, input, output>>

\* The innermost protected call comes back and its funcall returns.
FuncallLeave(tt) ==
    /\ frames # << >>
    /\ FuncallLeft(funcall_result(vm, protect_funcall(frames[Len(frames)], tt),
                                  << ArenaSave, "mrb_intern", "protect::funcall" >>))
    /\ UNCHANGED <<vm, classes, lastDef, boxVars, modules, input, output>>

NestNext ==
    \/ FuncallEnter("to_int")
    \/ ArenaPush
    \/ \E e \in Exceptions : VmRaise(e)
    \/ \E tt \in {"MRB_TT_OBJECT", "MRB_TT_UNDEF"} : FuncallLeave(tt)
    \/ ReturnCall

SpecNest == DefInit /\ [][NestNext]_vars

\* The result of the funcall that returns in this step, as its caller gets it.
LeftResult ==
    IF frames' = << >>
    THEN [ok |-> lastCall'.ok, name |-> lastCall'.name]
    ELSE [ok |-> frames'[Len(frames')].inner.ok, name |-> frames'[Len(frames')].inner.name]

\* C14: at every depth a funcall saves the arena index of its own entry and
\* leaves its callers' savepoints alone; a funcall returns innermost first and
\* restores the arena to its own saved index, which is never below a
\* caller's; its result is Err with the exception its own protected call let
\* through and Ok (or Fatal for an unreachable value) when there was none,
\* whatever Err a funcall below it returned to its native code.
C14_NestedFuncall ==
    /\ [](\A i \in 1..Len(frames) :
             /\ frames[i].saved <= arena
             /\ i > 1 => frames[i - 1].saved <= frames[i].saved)
    /\ [][ /\ Len(frames') = Len(frames) + 1 =>
                /\ frames'[Len(frames')].saved = arena
                /\ SubSeq(frames', 1, Len(frames)) = frames
                /\ arena' = arena
           /\ Len(frames') = Len(frames) - 1 =>
                /\ arena' = frames[Len(frames)].saved
                /\ \A i \in 1..Len(frames') :
                      /\ frames'[i].saved = frames[i].saved
                      /\ frames'[i].raised = frames[i].raised
                /\ IF frames[Len(frames)].raised = NoException
                   THEN LeftResult.ok \/ LeftResult.name = "fatal"
                   ELSE /\ ~LeftResult.ok
                        /\ LeftResult.name = frames[Len(frames)].raised.class ]_vars

\* Three funcalls were nested: the one at depth three returned Err, the one
\* at depth two handled it and returned Ok to the native code of the
\* outermost, which is still running above its own savepoint.
C14_Witness ==
    /\ Len(frames) = 1
    /\ frames[1].inner.done
    /\ frames[1].inner.ok
    /\ frames[1].inner.handled
    /\ frames[1].raised = NoException
    /\ frames[1].saved = 1
    /\ arena = 1


(***************************************************************************)
(* Equality and hashing of Specs.                                          *)
(***************************************************************************)
\* The state of a check of a pure function: every variable of the program
\* is as after construction, the arguments are drawn from ins.
PureInit(ins) ==
    /\ vm = VmInit
    /\ classes = [T \in HostTypes |-> NoSpec]
    /\ lastDef = NoDef
    /\ insts = << >>
    /\ heap = << >>
    /\ lastBox = NoBox
    /\ lastCall = NoCall
    /\ modules = [T \in ModuleTypes |-> NoSpec]
    /\ frames = << >>
    /\ arena = 0
    /\ input \in ins
    /\ output = [op |-> "none"]

\* The function under check has not been applied.
Pending == output.op = "none"

\* The function under check returns out; nothing else changes.
Returns(out) ==
    /\ output' = out
    /\ UNCHANGED <<vm, classes, lastDef, boxVars, lastCall, modules, frames, arena, input>>

\* The Specs the checks compare: the name may itself hold "::", the
\* enclosing scope is none or a class or module at the root.
ComparedSpecs(kind) ==
    { NewSpec(kind, n, sc, f) :
        n \in {"Foo", "Bar", "Foo::Bar"},
        sc \in {NoScope} \cup {NewSpec(k, m, NoScope, "none") : k \in Kinds, m \in Names},
        f \in IF kind = "class" THEN {"none", "box_unbox_free"} ELSE {"none"} }

SpecPairs ==
    UNION { { [op |-> "specs", s1 |-> a, s2 |-> b] :
                a \in ComparedSpecs(k), b \in ComparedSpecs(k) } : k \in Kinds }

\* An equality of Specs that compares the fields.
Mut_spec_eq(s1, s2) == s1.name = s2.name /\ s1.scope = s2.scope

\* PartialEq for class::Spec and for module::Spec
spec_eq(s1, s2) == fqname(s1) = fqname(s2)

RECURSIVE spec_hash(_)
\* Hash for class::Spec and for module::Spec: the data fed to the hasher,
\* the name and then the Option of the enclosing scope, which feeds its spec.
spec_hash(s) ==
    << s.name >> \o (IF IsNested(s)
                     THEN << "Some" >> \o spec_hash(enclosing_scope(s))
                     ELSE << "None" >>)

\* s1 == s2
SpecEq ==
    /\ Pending
    /\ Returns([op |-> "eq", eq |-> spec_eq(input.s1, input.s2),
                h1 |-> << >>, h2 |-> << >>])

\* s1.hash(state) and s2.hash(state) with two hashers in the same state.
SpecHash ==
    /\ Pending
    /\ Returns([op |-> "hash", eq |-> spec_eq(input.s1, input.s2),
                h1 |-> spec_hash(input.s1), h2 |-> spec_hash(input.s2)])

SpecEqNext == SpecEq \/ SpecHash

SpecSpecEq == PureInit(SpecPairs) /\ [][SpecEqNext]_vars

\* C21: two class Specs, or two module Specs, are equal exactly when their
\* qualified names are, however the qualified name is split between the name
\* and the enclosing scope and whatever the free function.
C21_EqIffFqname ==
    output.op = "eq" => (output.eq <=> fqname(input.s1) = fqname(input.s2))

\* Two Specs that differ in the split of the qualified name and in the free
\* function were compared and are equal.
C21_Witness ==
    /\ output.op = "eq"
    /\ output.eq
    /\ input.s1.name = "Foo::Bar"
    /\ ~IsNested(input.s1)
    /\ input.s2.name = "Bar"
    /\ IsNested(input.s2)
    /\ input.s1.free # input.s2.free

\* C22: two Specs that compare equal feed the same data to the hasher.
C22_HashAgreesWithEq ==
    output.op = "hash" /\ output.eq => output.h1 = output.h2


(***************************************************************************)
(* The method set of a builder over a chain of add_method calls.           *)
(***************************************************************************)
\* The add calls of a builder: add_method (Instance), add_self_method (Class)
\* and, on a module builder, add_module_method (Module), with the function.
AddCalls(kind) ==
    { [type |-> t, name |-> n, fn |-> f] :
        t \in IF kind = "class" THEN {"Instance", "Class"}
              ELSE {"Instance", "Class", "Module"},
        n \in {"foo", "bar"}, f \in {1, 2} }

AddChains ==
    UNION { { [op |-> "adds", kind |-> k, calls |-> c] :
                c \in UNION {[1..n -> AddCalls(k)] : n \in 0..MaxAdds} } : k \in Kinds }

RECURSIVE add_method_calls(_, _)
\* builder.add_method(..)?.add_self_method(..)? ... in the order of the calls.
add_method_calls(b, calls) ==
    IF calls = << >> THEN b
    ELSE add_method_calls(add_method(b, Head(calls)), Tail(calls))

\* The methods of the object a define() returned d for.
MethodsOf(d) == d.vm.objs[d.h].meths

\* class::Builder::for_spec(Foo) with the add calls, then define().
ClassAddsDefine ==
    /\ Pending
    /\ input.kind = "class"
    /\ Returns([op |-> "bound",
                meths |-> MethodsOf(class_Builder_define(VmInit,
                            add_method_calls(
                                class_Builder_for_spec(NewSpec("class", "Foo", NoScope, "none")),
                                input.calls),
                            NoMethod, {}))])

\* module::Builder::for_spec(Foo) with the add calls, then define().
ModuleAddsDefine ==
    /\ Pending
    /\ input.kind = "module"
    /\ Returns([op |-> "bound",
                meths |-> MethodsOf(module_Builder_define(mrb_intern(VmInit, "Foo"),
                            add_method_calls(
                                module_Builder_for_spec(NewSpec("module", "Foo", NoScope, "none")),
                                input.calls),
                            NoMethod, {}))])

AddsNext == ClassAddsDefine \/ ModuleAddsDefine

SpecAdds == PureInit(AddChains) /\ [][AddsNext]_vars

\* C23: define() binds, for every kind and name, the function of the last add
\* call of that kind and name.
C23_LaterAddReplaces ==
    output.op = "bound" =>
        \A i \in 1..Len(input.calls) :
            (\A j \in (i + 1)..Len(input.calls) :
                ~(input.calls[j].type = input.calls[i].type
                  /\ input.calls[j].name = input.calls[i].name))
            => input.calls[i] \in output.meths


(***************************************************************************)
(* Spec::new on names given as bytes: 0 is the NUL byte.                   *)
(***************************************************************************)
NameBytes == {0, 65, 66}

ByteNames == UNION {[1..n -> NameBytes] : n \in 0..MaxNameLen}

\* The calls of Spec::new: class::Spec::new takes no interpreter;
\* module::Spec::new interns the name, which may fail.
SpecNewCalls ==
    { [op |-> "new", kind |-> "class", name |-> n, intern |-> TRUE] : n \in ByteNames }
        \cup { [op |-> "new", kind |-> "module", name |-> n, intern |-> i] :
                    n \in ByteNames, i \in BOOLEAN }

\* CString::new: the bytes with a terminator, or an error when a byte is NUL.
CString_new(name) ==
    IF \E i \in 1..Len(name) : name[i] = 0
    THEN [ok |-> FALSE, bytes |-> << >>]
    ELSE [ok |-> TRUE, bytes |-> Append(name, 0)]

\* What Spec::new returns, the VM after it and the VM calls it made.
SpecNewResult(ok, err, spec, v, calls) ==
    [op |-> "new", ok |-> ok, err |-> err, spec |-> spec, vm |-> v, calls |-> calls]

\* class::Spec::new
class_Spec_new(v, name, cstring) ==
    IF cstring.ok
    THEN SpecNewResult(TRUE, "", NewSpec("class", name, NoScope, "none"), v, << >>)
    ELSE SpecNewResult(FALSE, "ConstantNameError", NoSpec, v, << >>)

\* A module::Spec::new that interns the name before it checks it.
Mut_module_Spec_new(v, name, cstring, internOk) ==
    IF ~internOk
    THEN SpecNewResult(FALSE, "Exception", [kind |-> "none"], v, << "mrb_intern" >>)
    ELSE IF cstring.ok
    THEN SpecNewResult(TRUE, "", NewSpec("module", name, NoScope, "none"),
                       mrb_intern(v, name), << "mrb_intern" >>)
    ELSE SpecNewResult(FALSE, "ConstantNameError", [kind |-> "none"],
                       mrb_intern(v, name), << "mrb_intern" >>)

\* module::Spec::new: the name is interned when it is a C string.
module_Spec_new(v, name, cstring, internOk) ==
    IF cstring.ok
    THEN IF internOk
         THEN SpecNewResult(TRUE, "", NewSpec("module", name, NoScope, "none"),
                            mrb_intern(v, name), << "mrb_intern" >>)
         ELSE SpecNewResult(FALSE, "Exception", NoSpec, v, << "mrb_intern" >>)
    ELSE SpecNewResult(FALSE, "ConstantNameError", NoSpec, v, << >>)

\* The state after Spec::new returned r.
SpecNewReturned(r) ==
    /\ vm' = r.vm
    /\ output' = [op |-> "new", ok |-> r.ok, err |-> r.err, spec |-> r.spec,
                  calls |-> r.calls]
    /\ UNCHANGED <<classes, lastDef, boxVars, lastCall, modules, frames, arena, input>>

\* class::Spec::new(name, None, None)
ClassSpecNewCall ==
    /\ Pending
    /\ input.kind = "class"
    /\ SpecNewReturned(class_Spec_new(vm, input.name, CString_new(input.name)))

\* module::Spec::new(interp, name, None)
ModuleSpecNewCall ==
    /\ Pending
    /\ input.kind = "module"
    /\ SpecNewReturned(module_Spec_new(vm, input.name, CString_new(input.name),
                                       input.intern))

SpecNewNext == ClassSpecNewCall \/ ModuleSpecNewCall

SpecSpecNew == PureInit(SpecNewCalls) /\ [][SpecNewNext]_vars

\* The bytes of a name.
BytesOf(name) == {name[i] : i \in 1..Len(name)}

\* C24: Spec::new returns the constant-name error exactly for a name that
\* holds a NUL byte; it has then made no VM call and the VM, its symbol table
\* included, is as before; a name without NUL gives a Spec with that name
\* unless interning failed.
C24_NulNameRejected ==
    output.op = "new" =>
        /\ output.err = "ConstantNameError" <=> 0 \in BytesOf(input.name)
        /\ 0 \in BytesOf(input.name) =>
              /\ ~output.ok
              /\ output.calls = << >>
              /\ vm = VmInit
        /\ output.ok <=> 0 \notin BytesOf(input.name) /\ input.intern
        /\ output.ok => output.spec.name = input.name

\* module::Spec::new has rejected a name with a NUL byte after its first byte.
C24_Witness ==
    /\ output.op = "new"
    /\ input.kind = "module"
    /\ output.err = "ConstantNameError"
    /\ Len(input.name) = 2
    /\ input.name[1] = 65
    /\ input.name[2] = 0
    /\ vm.symbols = {}


(***************************************************************************)
(* The extern "C" functions the VM calls: artichoke_matchdata_* and        *)
(* artichoke_securerandom_*, step by step.                                 *)
(***************************************************************************)
\* The calls the VM makes: the method, the unbox of self the method will
\* see (MatchData only) and how its body ends.
TrampolineCalls ==
    { [op |-> "call", method |-> m, unbox |-> u, outcome |-> o] :
        m \in MatchDataMethods \cup {sm.name : sm \in SecureRandomMethods},
        u \in {UnboxError, [ok |-> TRUE, err |-> "", ref |-> 1, val |-> "a"]},
        o \in Outcomes }

\* trampoline::* as called by the function: the matchdata trampolines, and
\* for securerandom a body that returns Ok or its error.
native_result(m, u, outcome) ==
    IF m \in MatchDataMethods
    THEN trampoline(m, u, outcome)
    ELSE IF outcome = "ok"
    THEN MethodResult(TRUE, "", 0, << "convert_args", "convert" >>)
    ELSE MethodResult(FALSE, "ArgumentError", 0, << "convert_args" >>)

\* The function has started: mrb_get_args!, unwrap_interpreter!, Guard::new.
Entered(m) ==
    [op |-> "trampoline", pc |-> "call", method |-> m,
     result |-> MethodResult(TRUE, "", 0, << >>), returns |-> 0, raises |-> 0,
     exc |-> ""]

\* exception::raise(guard, exception): the exception of the native error is
\* raised in the VM and control never comes back to the function.
exception_raise(st) ==
    [st EXCEPT !.pc = "unwound", !.raises = @ + 1, !.exc = st.result.err]

\* A function whose Err arm raises and then goes on to return nil.
Mut_trampoline_match(st) ==
    IF st.result.ok
    THEN [st EXCEPT !.pc = "returned", !.returns = @ + 1]
    ELSE [st EXCEPT !.pc = "returned", !.raises = @ + 1, !.returns = @ + 1,
                    !.exc = st.result.err]

\* The match on the result: Ok(value) => value.inner(), Err(exception) =>
\* exception::raise(guard, exception).
trampoline_match(st) ==
    IF st.result.ok
    THEN [st EXCEPT !.pc = "returned", !.returns = @ + 1]
    ELSE exception_raise(st)

\* The VM calls the function.
TrampolineEnter ==
    /\ Pending
    /\ Returns(Entered(input.method))

\* let result = trampoline::method(&mut guard, ..)
TrampolineCall ==
    /\ output.op = "trampoline"
    /\ output.pc = "call"
    /\ Returns([output EXCEPT !.pc = "match",
                              !.result = native_result(input.method, input.unbox,
                                                       input.outcome)])

\* match result { .. }
TrampolineMatch ==
    /\ output.op = "trampoline"
    /\ output.pc = "match"
    /\ Returns(trampoline_match(output))

TrampolineNext == TrampolineEnter \/ TrampolineCall \/ TrampolineMatch

\* The function runs to its end once the VM has called it: nothing in it
\* waits or suspends.
SpecTrampoline ==
    PureInit(TrampolineCalls) /\ [][TrampolineNext]_vars /\ WF_vars(TrampolineNext)

\* The function has ended.
TrampolineEnded == output.op = "trampoline" /\ output.pc \in {"returned", "unwound"}

ByteStrings == {<< >>, << 1 >>, << 2 >>}

\* A HashMap in the order its iterator yields the entries: the keys differ.
HashMaps ==
    { [op |-> "map", entries |-> e] :
        e \in { f \in UNION {[1..n -> [key : ByteStrings, val : ByteStrings]] :
                                n \in 0..MaxPairs} :
                    \A i, j \in 1..Len(f) : f[i].key = f[j].key => i = j } }

\* ConvertMut<Vec<u8>, Value>: a Ruby String with the bytes.
convert_bytes(b) == [tt |-> "MRB_TT_STRING", bytes |-> b]

\* TryConvertMut<Value, Vec<u8>>: the bytes of a Ruby String.
try_convert_bytes(v) ==
    IF v.tt = "MRB_TT_STRING" THEN v.bytes ELSE << 0 >>

\* mrb_hash_new_capa
mrb_hash_new_capa == [tt |-> "MRB_TT_HASH", entries |-> << >>]

\* mrb_hash_set: the value of an equal key is replaced, a new key is added
\* after the others.
mrb_hash_set(h, k, v) ==
    IF \E i \in 1..Len(h.entries) : h.entries[i].key = k
    THEN [h EXCEPT !.entries =
            [i \in 1..Len(h.entries) |->
                IF h.entries[i].key = k THEN [key |-> k, val |-> v] ELSE h.entries[i]]]
    ELSE [h EXCEPT !.entries = Append(@, [key |-> k, val |-> v])]

\* mrb_hash_get: the value of the equal key, nil when there is none.
mrb_hash_get(h, k) ==
    IF \E i \in 1..Len(h.entries) : h.entries[i].key = k
    THEN (CHOOSE e \in {h.entries[i] : i \in 1..Len(h.entries)} : e.key = k).val
    ELSE [tt |-> "MRB_TT_FALSE", bytes |-> << >>]

RECURSIVE hash_convert_mut(_, _)
\* ConvertMut<HashMap<Vec<u8>, Vec<u8>>, Value>: the loop over the entries.
hash_convert_mut(h, entries) ==
    IF entries = << >> THEN h
    ELSE hash_convert_mut(mrb_hash_set(h, convert_bytes(Head(entries).key),
                                       convert_bytes(Head(entries).val)),
                          Tail(entries))

\* A conversion back that pairs every key with itself.
Mut_hash_try_convert_mut(value) ==
    [ok |-> TRUE,
     pairs |-> [i \in 1..Len(value.entries) |->
                    [key |-> value.entries[i].key, val |-> value.entries[i].key]]]

\* TryConvertMut<Value, Vec<(Value, Value)>>: mrb_hash_keys, then
\* mrb_hash_get for every key.
hash_try_convert_mut(value) ==
    IF value.tt = "MRB_TT_HASH"
    THEN [ok |-> TRUE,
          pairs |-> [i \in 1..Len(value.entries) |->
                        [key |-> value.entries[i].key,
                         val |-> mrb_hash_get(value, value.entries[i].key)]]]
    ELSE [ok |-> FALSE, pairs |-> << >>]

\* The round trip of tests::roundtrip_kv for the Hash value: its length, the
\* recovered pairs and their bytes.
RoundTripOf(value, recovered) ==
    [op |-> "roundtrip", len |-> Len(value.entries), ok |-> recovered.ok,
     pairs |-> [i \in 1..Len(recovered.pairs) |->
                    [key |-> try_convert_bytes(recovered.pairs[i].key),
                     val |-> try_convert_bytes(recovered.pairs[i].val)]]]

\* interp.convert_mut(hash), value.funcall("length"), value.try_into_mut()
RoundTripKv ==
    /\ Pending
    /\ Returns(RoundTripOf(hash_convert_mut(mrb_hash_new_capa, input.entries),
                           hash_try_convert_mut(
                               hash_convert_mut(mrb_hash_new_capa, input.entries))))

SpecHashConvert == PureInit(HashMaps) /\ [][RoundTripKv]_vars

GcInit ==
    [op |-> "gc", objs |-> << >>, arena |-> << >>, saved |-> -1, last |-> 0,
     collected |-> FALSE, asked |-> [obj |-> 0, ffi |-> TRUE, dead |-> FALSE]]

\* mrb_sys_value_is_dead: an immediate value is never dead, a heap value is
\* dead when the collector freed it.
mrb_sys_value_is_dead(o) == o.kind = "heap" /\ o.dead

\* An is_dead that answers true when the boundary cannot be crossed.
Mut_is_dead(o, ffiOk) == IF ffiOk THEN mrb_sys_value_is_dead(o) ELSE TRUE

\* Value::is_dead: the VM's answer, false when the boundary cannot be crossed.
is_dead(o, ffiOk) == IF ffiOk THEN mrb_sys_value_is_dead(o) ELSE FALSE

\* eval of a script whose result is a heap value or an immediate one: a heap
\* value is protected on the arena; the result is the most recent one.
gc_eval(g, kind) ==
    [g EXCEPT !.objs = Append(@, [kind |-> kind, dead |-> FALSE, released |-> FALSE]),
              !.arena = IF kind = "heap" THEN Append(@, Len(g.objs) + 1) ELSE @,
              !.last = Len(g.objs) + 1,
              !.collected = FALSE]

\* ArenaSavepoint::restore: the arena is cut back to the saved index.
gc_restore(g) ==
    [g EXCEPT !.arena = SubSeq(@, 1, g.saved),
              !.saved = -1,
              !.objs = [i \in 1..Len(g.objs) |->
                          IF \E k \in (g.saved + 1)..Len(g.arena) : g.arena[k] = i
                          THEN [g.objs[i] EXCEPT !.released = TRUE]
                          ELSE g.objs[i]],
              !.collected = FALSE]

\* full_gc: a heap value that is neither on the arena nor the result of the
\* most recent eval is freed.
full_gc(g) ==
    [g EXCEPT !.objs = [i \in 1..Len(g.objs) |->
                          IF /\ g.objs[i].kind = "heap"
                             /\ i # g.last
                             /\ \A k \in 1..Len(g.arena) : g.arena[k] # i
                          THEN [g.objs[i] EXCEPT !.dead = TRUE]
                          ELSE g.objs[i]],
              !.collected = TRUE]

\* crate::interpreter()
Interpreter ==
    /\ Pending
    /\ Returns(GcInit)

\* interp.create_arena_savepoint()
CreateArenaSavepoint ==
    /\ output.op = "gc"
    /\ output.saved = -1
    /\ Returns([output EXCEPT !.saved = Len(output.arena)])

\* arena.eval(..) or interp.eval(..)
GcEval(kind) ==
    /\ output.op = "gc"
    /\ Len(output.objs) < MaxEvals
    /\ Returns(gc_eval(output, kind))

\* arena.restore()
ArenaRestoreCall ==
    /\ output.op = "gc"
    /\ output.saved # -1
    /\ Returns(gc_restore(output))

\* interp.full_gc()
FullGc ==
    /\ output.op = "gc"
    /\ ~output.collected
    /\ Returns(full_gc(output))

\* value.is_dead(interp) of the i-th value.
IsDead(i, ffiOk) ==
    /\ output.op = "gc"
    /\ i \in 1..Len(output.objs)
    /\ Returns([output EXCEPT !.asked = [obj |-> i, ffi |-> ffiOk,
                                         dead |-> is_dead(output.objs[i], ffiOk)]])

GcNext ==
    \/ Interpreter
    \/ CreateArenaSavepoint
    \/ \E kind \in {"heap", "immediate"} : GcEval(kind)
    \/ ArenaRestoreCall
    \/ FullGc
    \/ \E i \in 1..MaxEvals, ffiOk \in BOOLEAN : IsDead(i, ffiOk)

SpecGc == PureInit({[op |-> "interp"]}) /\ [][GcNext]_vars

RedefineSpecs == {NewSpec("class", "Foo", NoScope, "none"), HostSpec("Container")}

\* The builder of a registration: for_spec, with_super_class::<T> when T is
\* a type, value_is_rust_object when tt, the add_method calls.
RedefineBuilder(s, T, tt, ms) ==
    IF T = ""
    THEN SuperClassResult(ClassBuilder(s, tt, ms), NoError, vm, << >>)
    ELSE with_super_class(classes, vm, ClassBuilder(s, tt, ms), T, T)

\* The state after the registration with builder result w: the error of
\* with_super_class, else the result d of define().  input records the method
\* the VM rejected and the methods it had bound before.
Redefined(T, tt, w, d, rejected, before) ==
    /\ input' = [op |-> "define", rejected |-> rejected, before |-> before]
    /\ IF ~w.res.ok
       THEN /\ vm' = w.vm
            /\ lastDef' = [NoDef EXCEPT !.op = "with_super_class", !.type = T,
                                        !.spec = w.builder.spec, !.res = w.res,
                                        !.calls = w.calls]
       ELSE /\ Len(d.vm.objs) <= MaxDefObjs
            /\ vm' = d.vm
            /\ lastDef' = [ op |-> "define", type |-> T, spec |-> w.builder.spec,
                            meths |-> w.builder.methods, tt |-> tt,
                            super |-> DefinedSuper(w.builder), res |-> d.res,
                            h |-> d.h, calls |-> d.calls, bound |-> d.bound ]
    /\ UNCHANGED <<classes, boxVars, lastCall, modules, frames, arena, output>>

\* define() of the builder the registration built.
RedefineOf(T, tt, w, rejected, before) ==
    Redefined(T, tt, w, class_Builder_define(w.vm, w.builder, rejected, before),
              rejected, before)

\* class::Builder::for_spec(s) [.with_super_class::<T, _>(T)?]
\* [.value_is_rust_object()] .add_method(..)* .define()
ClassRedefine(s, T, tt, ms, rejected, before) ==
    /\ Idle
    /\ RedefineOf(T, tt, RedefineBuilder(s, T, tt, ms), rejected, before)

\* module::Builder::for_spec(Bar) .add_method(..)* .define()
ModuleRedefine(ms, rejected, before) ==
    /\ Idle
    /\ SpecConstructed(vm, NewSpec("module", "Bar", NoScope, "none"))
    /\ Redefined("", FALSE,
                 SuperClassResult(ModuleBuilder(NewSpec("module", "Bar", NoScope, "none"), ms),
                                  NoError, vm, << >>),
                 module_Builder_define(vm,
                     ModuleBuilder(NewSpec("module", "Bar", NoScope, "none"), ms),
                     rejected, before),
                 rejected, before)

RedefineNext ==
    \/ \E n \in {"Foo", "Container"} : VmEval("class", ObjectClass, n, MaxDefObjs)
    \/ DefClassSpec("Container", HostSpec("Container"))
    \/ ModuleSpecNew("Bar")
    \/ \E s \in RedefineSpecs, T \in {"", "Container"}, tt \in BOOLEAN,
          ms \in BuilderMethodSets :
          \E rej \in BindOutcomes(ms) : \E before \in SUBSET (ms \ {rej}) :
              ClassRedefine(s, T, tt, ms, rej, before)
    \/ \E ms \in BuilderMethodSets :
          \E rej \in BindOutcomes(ms) : \E before \in SUBSET (ms \ {rej}) :
              ModuleRedefine(ms, rej, before)
    \/ Return

SpecRedefine == DefInit /\ [][RedefineNext]_vars

\* C28: a define() of a class builder with value_is_rust_object that returns
\* Ok leaves the class tagged MRB_TT_DATA, whether it created the class or
\* found it; a define() of a builder without the flag leaves the tag of
\* every class as it was and a class it creates with the tag of plain objects.
C28_DataTagOnOk ==
    [][ lastDef'.op = "define" /\ lastDef'.spec.kind = "class" =>
          /\ lastDef'.tt /\ lastDef'.res.ok =>
                vm'.objs[lastDef'.h].tt = "MRB_TT_DATA"
          /\ ~lastDef'.tt =>
                /\ \A i \in 1..Len(vm.objs) : vm'.objs[i].tt = vm.objs[i].tt
                /\ \A i \in (Len(vm.objs) + 1)..Len(vm'.objs) :
                      vm'.objs[i].tt = "MRB_TT_OBJECT"
          /\ \A i \in 1..Len(vm.objs) :
                i # lastDef'.h => vm'.objs[i].tt = vm.objs[i].tt ]_vars

\* define() with the flag has returned Ok for a class it did not create: the
\* class is tagged.
C28_Witness ==
    /\ lastDef.op = "define"
    /\ lastDef.tt
    /\ lastDef.res.ok
    /\ lastDef.calls # << >>
    /\ ~CallsDefine(lastDef.calls)
    /\ vm.objs[lastDef.h].tt = "MRB_TT_DATA"

\* The define() a caller makes next for the spec s in the VM v.
LaterDefine(v, s) ==
    IF s.kind = "class"
    THEN class_Builder_define(v, class_Builder_for_spec(s), NoMethod, {})
    ELSE module_Builder_define(v, module_Builder_for_spec(s), NoMethod, {})

\* C29: when the VM rejects a method of a define() that has its class or
\* module object, define() returns the error for that method; the object
\* stays defined with the methods bound before the rejection beside the ones
\* it had; a class keeps the tag it had (a new one that of plain objects)
\* even if the builder has the flag; the next define() for the spec works on
\* that object and creates none.
C29_PartialDefine ==
    [][ lastDef'.op = "define" /\ input'.rejected # NoMethod
            /\ lastDef'.h # NullHandle =>
          /\ lastDef'.res = NotDefinedError("method", input'.rejected.name)
          /\ ChainDefined(vm', lastDef'.spec)
          /\ input'.before \subseteq vm'.objs[lastDef'.h].meths
          /\ input'.rejected \in vm'.objs[lastDef'.h].meths
                => lastDef'.h <= Len(vm.objs) /\ input'.rejected \in vm.objs[lastDef'.h].meths
          /\ lastDef'.h <= Len(vm.objs) =>
                /\ vm'.objs[lastDef'.h].tt = vm.objs[lastDef'.h].tt
                /\ vm.objs[lastDef'.h].meths \subseteq
                      vm'.objs[lastDef'.h].meths
                        \cup {x \in vm.objs[lastDef'.h].meths :
                                \E m \in input'.before :
                                    m.type = x.type /\ m.name = x.name}
          /\ lastDef'.h > Len(vm.objs) => vm'.objs[lastDef'.h].tt = "MRB_TT_OBJECT"
          /\ LaterDefine(vm', lastDef'.spec).h = lastDef'.h
          /\ Len(LaterDefine(vm', lastDef'.spec).vm.objs) = Len(vm'.objs) ]_vars

\* A define() with the flag that created the class Container has failed on
\* its second method: the class is there with the first method and untagged.
C29_Witness ==
    /\ lastDef.op = "define"
    /\ ~lastDef.res.ok
    /\ lastDef.res.what = "method"
    /\ lastDef.tt
    /\ CallsDefine(lastDef.calls)
    /\ input.before # {}
    /\ input.before = vm.objs[lastDef.h].meths
    /\ vm.objs[lastDef.h].tt = "MRB_TT_OBJECT"
    /\ mrb_class_defined(vm, "Container")

\* C30: a define() of a spec that resolves makes no define call, creates no
\* object, changes no constant and leaves every object but the one it
\* resolved to as it was; of that object it leaves the kind and the
\* superclass, whatever superclass the builder carries, and changes at most
\* the methods and the tag.
C30_RedefineKeepsClass ==
    [][ lastDef'.op = "define" /\ ChainDefined(vm, lastDef'.spec) =>
          /\ ~CallsDefine(lastDef'.calls)
          /\ Len(vm'.objs) = Len(vm.objs)
          /\ vm'.consts = vm.consts
          /\ lastDef'.h \in 1..Len(vm.objs)
          /\ \A i \in 1..Len(vm.objs) :
                /\ vm'.objs[i].super = vm.objs[i].super
                /\ vm'.objs[i].kind = vm.objs[i].kind
                /\ i # lastDef'.h => vm'.objs[i] = vm.objs[i] ]_vars

\* define() has returned Ok for the existing class Foo, a subclass of Object,
\* with a builder that carries the class Container as its superclass, the
\* flag and a method: Foo is still a subclass of Object, tagged, with the method.
C30_Witness ==
    /\ lastDef.op = "define"
    /\ lastDef.res.ok
    /\ lastDef.spec.name = "Foo"
    /\ lastDef.super \notin {NullHandle, ObjectClass}
    /\ ~CallsDefine(lastDef.calls)
    /\ vm.objs[lastDef.h].super = ObjectClass
    /\ vm.objs[lastDef.h].tt = "MRB_TT_DATA"
    /\ vm.objs[lastDef.h].meths # {}


(***************************************************************************)
(* matchdata::mruby::init statement by statement.  output holds the        *)
(* position in init, the steps the running call has completed, the result  *)
(* of the last call and the number of evals of matchdata.rb.               *)
(***************************************************************************)
\* The position before any call and after each return.
InitReturned(res, trace, evals) ==
    [op |-> "init", pc |-> "return", res |-> res, trace |-> trace, evals |-> evals]

\* An init that evaluates matchdata.rb before it registers the class.
Mut_init_after(pc) ==
    CASE pc = "check" -> "define"
      [] pc = "define" -> "eval"
      [] pc = "eval" -> "def_class"
      [] OTHER -> "return"

\* The statement of init that follows the statement pc when it succeeded.
init_after(pc) ==
    CASE pc = "check" -> "define"
      [] pc = "define" -> "def_class"
      [] pc = "def_class" -> "eval"
      [] OTHER -> "return"

\* The position after the statement at output.pc returned res.
InitStepped(res, evals) ==
    output' = [ op |-> "init",
                pc |-> IF res.ok THEN init_after(output.pc) ELSE "return",
                res |-> res,
                trace |-> IF res.ok THEN Append(output.trace, output.pc)
                          ELSE output.trace,
                evals |-> evals ]

\* if interp.is_class_defined::<MatchData>() { return Ok(()) }
InitCheck ==
    /\ Idle
    /\ output.pc = "return"
    /\ output' = [ op |-> "init",
                   pc |-> IF is_class_defined(classes, "MatchData") THEN "return"
                          ELSE init_after("check"),
                   res |-> NoError, trace |-> << >>, evals |-> output.evals ]
    /\ UNCHANGED <<vm, classes, lastDef, boxVars, lastCall, modules, frames, arena, input>>

\* class::Builder::for_spec(..).value_is_rust_object().add_method(..)*.define()?
InitDefineOf(d) ==
    /\ Len(d.vm.objs) <= MaxDefObjs
    /\ vm' = d.vm
    /\ InitStepped(d.res, output.evals)
    /\ UNCHANGED <<classes, lastDef, boxVars, lastCall, modules, frames, arena, input>>

InitDefine(rejected, before) ==
    /\ output.pc = "define"
    /\ InitDefineOf(class_Builder_define(vm,
            ClassBuilder(HostSpec("MatchData"), TRUE, MatchDataInitMethods),
            rejected, before))

\* interp.def_class::<matchdata::MatchData>(spec)?
InitDefClass ==
    /\ output.pc = "def_class"
    /\ classes' = def_class(classes, "MatchData", HostSpec("MatchData"))
    /\ InitStepped(NoError, output.evals)
    /\ UNCHANGED <<vm, lastDef, boxVars, lastCall, modules, frames, arena, input>>

\* let _ = interp.eval(&include_bytes!("matchdata.rb")[..])?
InitEval(evalOk) ==
    /\ output.pc = "eval"
    /\ output.evals < MaxEvals
    /\ InitStepped(IF evalOk THEN NoError
                   ELSE [ok |-> FALSE, err |-> "Exception", what |-> "eval",
                         name |-> "matchdata.rb"],
                   output.evals + 1)
    /\ UNCHANGED <<vm, classes, lastDef, boxVars, lastCall, modules, frames, arena, input>>

InitNext ==
    \/ InitCheck
    \/ \E rej \in BindOutcomes(MatchDataInitMethods) :
          \E before \in {{}, {[type |-> "Instance", name |-> "begin", fn |-> 1]} \ {rej}} :
              InitDefine(rej, before)
    \/ InitDefClass
    \/ \E evalOk \in BOOLEAN : InitEval(evalOk)
    \/ /\ output.pc = "return"
       /\ \E n \in {"MatchData", "Foo"} : VmEval("class", ObjectClass, n, MaxDefObjs)
    \/ Return

InitInit ==
    /\ vm = VmInit
    /\ classes = [T \in HostTypes |-> NoSpec]
    /\ lastDef = NoDef
    /\ insts = << >>
    /\ heap = << >>
    /\ lastBox = NoBox
    /\ lastCall = NoCall
    /\ modules = [T \in ModuleTypes |-> NoSpec]
    /\ frames = << >>
    /\ arena = 0
    /\ input = [op |-> "none"]
    /\ output = InitReturned(NoError, << >>, 0)

SpecInit == InitInit /\ [][InitNext]_vars

\* C31: the statements a call of init has completed are, in this order, the
\* define of the class in the VM, the insertion of its Spec in the registry
\* and the eval of the Ruby source; the source is evaluated only in a call
\* that has completed both, with the class defined in the VM and registered,
\* and the Spec is inserted only when the class is defined in the VM.
C31_DefineRegisterEval ==
    /\ [](\E k \in 0..3 :
             output.trace = SubSeq(<<"define", "def_class", "eval">>, 1, k))
    /\ [][ output'.evals # output.evals =>
              /\ output.trace = <<"define", "def_class">>
              /\ ChainDefined(vm, HostSpec("MatchData"))
              /\ is_class_defined(classes, "MatchData") ]_vars
    /\ [][ classes' # classes =>
              /\ output.trace = <<"define">>
              /\ ChainDefined(vm, HostSpec("MatchData"))
              /\ output'.evals = output.evals ]_vars

\* A call of init has returned Ok after its three steps.
C31_Witness ==
    /\ output.pc = "return"
    /\ output.res.ok
    /\ output.trace = <<"define", "def_class", "eval">>
    /\ output.evals = 1
    /\ is_class_defined(classes, "MatchData")
    /\ mrb_class_defined(vm, "MatchData")


(***************************************************************************)
(* An ArgCountError as a RubyException: its name, its message and the VM   *)
(* exception object built for it.                                          *)
(***************************************************************************)
\* A funcall with n arguments in an interpreter where ArgumentError is or is
\* not registered, is or is not defined in the VM, and where the class's
\* initialize returns or unwinds.
ArgCountCalls ==
    [ op : {"funcall"}, n : 0..MaxArgs, registered : BOOLEAN, defined : BOOLEAN,
      init : InitializeOutcomes ]

\* The class registry and the VM of such an interpreter.
ArgumentErrorRegistry(registered) ==
    [T \in {"ArgumentError"} |->
        IF registered THEN NewSpec("class", "ArgumentError", NoScope, "none")
        ELSE NoSpec]

ArgumentErrorVm(defined) ==
    IF defined
    THEN VmCreate(VmInit, "class", ObjectClass, "ArgumentError", ObjectClass).vm
    ELSE VmInit

\* impl fmt::Display for ArgCountError, in pieces.
ArgCountError_to_string(ace) ==
    << "Too many arguments for function call: ", "gave ", ToString(ace.given),
       " arguments, but Artichoke only supports a maximum of ", ToString(ace.max),
       " arguments" >>

\* RubyException::message for ArgCountError
ArgCountError_message(ace) == << "Too many arguments" >>

\* RubyException::name for ArgCountError
ArgCountError_name(ace) == "ArgumentError"

\* The exception object ArgumentError.new(message) of the VM: an instance of
\* the class h that carries message.
ExceptionObject(inst, message) ==
    [some |-> inst.some, class |-> inst.h,
     message |-> IF inst.some THEN message ELSE << >>]

\* RubyException::as_mrb_value for ArgCountError
ArgCountError_as_mrb_value(reg, v, ace, init) ==
    ExceptionObject(new_instance(reg, v, "ArgumentError", init),
                    ArgCountError_to_string(ace))

\* What the caller of a funcall sees of its argument count error.
ArgCountRaised(reg, v, ace, init) ==
    IF ~ace.is_err
    THEN [op |-> "ok"]
    ELSE [ op |-> "raise", name |-> ArgCountError_name(ace),
           message |-> ArgCountError_message(ace),
           value |-> ArgCountError_as_mrb_value(reg, v, ace, init) ]

\* The argument count check of a funcall and the error's three faces.
ArgCountRaise ==
    /\ Pending
    /\ Returns(ArgCountRaised(ArgumentErrorRegistry(input.registered),
                              ArgumentErrorVm(input.defined),
                              ArgCountError_try_from(input.n), input.init))

SpecArgCount == PureInit(ArgCountCalls) /\ [][ArgCountRaise]_vars

\* C32: an argument count error has the name ArgumentError; as_mrb_value
\* gives an instance of the registered ArgumentError class, and nothing when
\* the class is not registered or does not resolve; the message of that
\* exception object is the message RubyException::message reports.
C32_ArgumentErrorFaces ==
    output.op = "raise" =>
        /\ output.name = "ArgumentError"
        /\ ~(input.registered /\ input.defined) => ~output.value.some
        /\ output.value.some =>
              /\ output.value.class = mrb_class_get(ArgumentErrorVm(input.defined),
                                                    "ArgumentError").h
              /\ output.value.message = output.message


(***************************************************************************)
(* The operations on one Spec: rclass, resolve, define, def_class /        *)
(* def_module and clone.  input holds the Spec as constructed; output the  *)
(* Spec after the last operation and the copy of it the operation made.    *)
(***************************************************************************)
RECURSIVE SpecNewVm(_, _)
\* The VM after the Spec::new calls of a spec and of its enclosing scopes:
\* module::Spec::new interns the name.
SpecNewVm(v, s) ==
    IF s.kind = "module"
    THEN mrb_intern(IF IsNested(s) THEN SpecNewVm(v, enclosing_scope(s)) ELSE v, s.name)
    ELSE IF IsNested(s) THEN SpecNewVm(v, enclosing_scope(s)) ELSE v

\* Spec::rclass: the name buffer and the enclosing scope are cloned.
Spec_rclass(s) == [kind |-> s.kind, name |-> s.name, scope |-> enclosing_scope(s)]

\* #[derive(Clone)] for Spec
Spec_clone(s) == [kind |-> s.kind, name |-> s.name, scope |-> s.scope, free |-> s.free]

\* The Spec s after an operation, with the copy the operation made of it.
SpecAfter(op, s, copy) == [op |-> op, spec |-> s, copy |-> copy]

SpecOpsInit ==
    /\ input \in [op : {"spec"}, spec : SpecUniverse]
    /\ vm = SpecNewVm(VmInit, input.spec)
    /\ classes = [T \in HostTypes |-> NoSpec]
    /\ lastDef = NoDef
    /\ insts = << >>
    /\ heap = << >>
    /\ lastBox = NoBox
    /\ lastCall = NoCall
    /\ modules = [T \in ModuleTypes |-> NoSpec]
    /\ frames = << >>
    /\ arena = 0
    /\ output = [op |-> "none"]

\* spec.rclass()
OpRclass ==
    /\ output' = SpecAfter("rclass", input.spec, Spec_rclass(input.spec))
    /\ UNCHANGED <<vm, classes, lastDef, boxVars, lastCall, modules, frames, arena, input>>

\* spec.rclass().resolve(mrb)
OpResolve ==
    /\ vm' = Resolve(vm, input.spec).vm
    /\ output' = SpecAfter("resolve", input.spec, Spec_rclass(input.spec))
    /\ UNCHANGED <<classes, lastDef, boxVars, lastCall, modules, frames, arena, input>>

\* The state after Builder::for_spec(interp, &s).define() returned d for the
\* builder b.
OpDefined(b, d) ==
    /\ Len(d.vm.objs) <= MaxDefObjs
    /\ vm' = d.vm
    /\ output' = SpecAfter("define", input.spec, b.spec)
    /\ UNCHANGED <<classes, lastDef, boxVars, lastCall, modules, frames, arena, input>>

\* Builder::for_spec(interp, &s).define() of the spec or of one of its
\* enclosing scopes.
OpDefine(s) ==
    IF s.kind = "class"
    THEN OpDefined(class_Builder_for_spec(s),
                   class_Builder_define(vm, class_Builder_for_spec(s), NoMethod, {}))
    ELSE OpDefined(module_Builder_for_spec(s),
                   module_Builder_define(vm, module_Builder_for_spec(s), NoMethod, {}))

\* interp.def_class::<T>(spec) / interp.def_module::<T>(spec): the Spec
\* moves into the registry.
OpDefClass ==
    /\ IF input.spec.kind = "class"
       THEN /\ classes' = def_class(classes, "Container", input.spec)
            /\ output' = SpecAfter("def_class", input.spec,
                                   class_spec(classes', "Container"))
            /\ UNCHANGED modules
       ELSE /\ modules' = def_module(modules, "SecureRandom", input.spec)
            /\ output' = SpecAfter("def_class", input.spec, modules'["SecureRandom"])
            /\ UNCHANGED classes
    /\ UNCHANGED <<vm, lastDef, boxVars, lastCall, frames, arena, input>>

\* spec.clone()
OpClone ==
    /\ output' = SpecAfter("clone", input.spec, Spec_clone(input.spec))
    /\ UNCHANGED <<vm, classes, lastDef, boxVars, lastCall, modules, frames, arena, input>>

SpecOpsNext ==
    \/ OpRclass
    \/ OpResolve
    \/ \E s \in {input.spec, enclosing_scope(input.spec),
                 IF IsNested(input.spec)
                 THEN enclosing_scope(enclosing_scope(input.spec))
                 ELSE NoScope} \ {NoScope} : OpDefine(s)
    \/ OpDefClass
    \/ OpClone

SpecSpecOps == SpecOpsInit /\ [][SpecOpsNext]_vars

\* The qualified name written out for the nesting depths of the specs: the
\* names from the outermost scope to the spec, with "::" between them.
QualifiedName(s) ==
    IF ~IsNested(s) THEN s.name
    ELSE IF ~IsNested(s.scope) THEN ((s.scope.name \o "::") \o s.name)
    ELSE ((((s.scope.scope.name \o "::") \o s.scope.name) \o "::") \o s.name)

\* C33: the qualified name of a Spec is the qualified name of its enclosing
\* scope, "::" and its name when it is nested and its name otherwise; after
\* rclass, resolve, define, def_class or clone the Spec, and the copy the
\* operation holds of it, has the name, the enclosing scope and the qualified
\* name it was constructed with.
C33_FqnameStable ==
    /\ fqname(input.spec) = QualifiedName(input.spec)
    /\ IsNested(input.spec) =>
          fqname(input.spec)
              = ((fqname(enclosing_scope(input.spec)) \o "::") \o input.spec.name)
    /\ output.op # "none" =>
          /\ output.spec.name = input.spec.name
          /\ enclosing_scope(output.spec) = enclosing_scope(input.spec)
          /\ fqname(output.spec) = QualifiedName(input.spec)
          /\ output.op # "define" =>
                /\ output.copy.name = input.spec.name
                /\ enclosing_scope(output.copy) = enclosing_scope(input.spec)
                /\ fqname(output.copy) = QualifiedName(input.spec)
          /\ output.op = "define" =>
                fqname(output.copy) = QualifiedName(output.copy)

\* The module Spec Foo::Bar was defined in the VM after its scope, a class,
\* and moved into the registry: the entry has the qualified name Foo::Bar.
C33_Witness ==
    /\ output.op = "def_class"
    /\ input.spec.kind = "module"
    /\ Depth(input.spec) = 1
    /\ enclosing_scope(input.spec).kind = "class"
    /\ ChainDefined(vm, input.spec)
    /\ fqname(modules["SecureRandom"]) = "Foo::Bar"


(***************************************************************************)
(* resolve of a Spec whose name is bound to a constant of another kind.    *)
(***************************************************************************)
\* What a script can bind a constant to: a class, a module, or an object
\* that is neither.
ConstantKinds == {"class", "module", "object"}

CollideNext ==
    \/ \E kind \in ConstantKinds, scope \in 1..MaxDefObjs, n \in Names :
          VmEval(kind, scope, n, MaxDefObjs)
    \/ \E n \in Names : ModuleSpecNew(n)
    \/ \E s \in DefineSpecs : ResolveSpec(s)
    \/ Return

SpecCollide == DefInit /\ [][CollideNext]_vars

\* The object the constants named by a root spec, or by a spec nested once,
\* lead to: the constant of the name under the object of the scope's name.
ConstantOf(v, s) ==
    IF IsNested(s)
    THEN IF ConstGet(v, ObjectClass, enclosing_scope(s).name) = NullHandle
         THEN NullHandle
         ELSE ConstGet(v, ConstGet(v, ObjectClass, enclosing_scope(s).name), s.name)
    ELSE ConstGet(v, ObjectClass, s.name)

\* C34: resolve of a class Spec or a module Spec returns the handle of the
\* constant its name is bound to under its scope, whatever that constant is,
\* a class, a module or neither, and None exactly when there is no such
\* constant; it changes nothing in the VM but the symbol table.
C34_ResolveUntyped ==
    [][ lastDef'.op = "resolve" =>
          /\ lastDef'.h = ConstantOf(vm, lastDef'.spec)
          /\ lastDef'.res.ok
          /\ vm'.objs = vm.objs
          /\ vm'.consts = vm.consts ]_vars

\* A class Spec nested in a module Spec was resolved to a constant that is
\* an object, under a scope that is a class.
C34_Witness ==
    /\ lastDef.op = "resolve"
    /\ lastDef.spec.kind = "class"
    /\ IsNested(lastDef.spec)
    /\ enclosing_scope(lastDef.spec).kind = "module"
    /\ lastDef.h # NullHandle
    /\ vm.objs[lastDef.h].kind = "object"
    /\ vm.objs[ConstGet(vm, ObjectClass, enclosing_scope(lastDef.spec).name)].kind = "class"


(***************************************************************************)
(* MatchData#regexp.  output holds the Regexp objects of the VM (their     *)
(* patterns, by object id), the MatchData (its regexp and the id of the    *)
(* Regexp object that made the match), the ids earlier calls returned and  *)
(* the result of the last call.                                            *)
(***************************************************************************)
Patterns == {"a+", "b*"}

NoMatchData == [some |-> FALSE, regexp |-> "", source |-> 0]

RegexpState(objs, md, returned, res) ==
    [op |-> "regexp", objs |-> objs, md |-> md, returned |-> returned, res |-> res]

NoRegexpResult == [called |-> FALSE, ok |-> TRUE, id |-> 0]

\* Regexp::alloc_value: a new VM object that holds the regexp.
Regexp_alloc_value(objs, regexp) ==
    [objs |-> Append(objs, regexp), id |-> Len(objs) + 1]

\* A regexp that hands back the Regexp object the match was made with.
Mut_matchdata_regexp(objs, md, unboxOk, allocOk) ==
    IF ~unboxOk \/ ~md.some
    THEN [objs |-> objs, res |-> [called |-> TRUE, ok |-> FALSE, id |-> 0]]
    ELSE [objs |-> objs, res |-> [called |-> TRUE, ok |-> TRUE, id |-> md.source]]

\* matchdata::trampoline::regexp: unbox self, clone data.regexp(), allocate.
matchdata_regexp(objs, md, unboxOk, allocOk) ==
    IF ~unboxOk \/ ~md.some
    THEN [objs |-> objs, res |-> [called |-> TRUE, ok |-> FALSE, id |-> 0]]
    ELSE IF ~allocOk
    THEN [objs |-> objs, res |-> [called |-> TRUE, ok |-> FALSE, id |-> 0]]
    ELSE [ objs |-> Regexp_alloc_value(objs, md.regexp).objs,
           res |-> [called |-> TRUE, ok |-> TRUE,
                    id |-> Regexp_alloc_value(objs, md.regexp).id] ]

RegexpInit ==
    /\ vm = VmInit
    /\ classes = [T \in HostTypes |-> NoSpec]
    /\ lastDef = NoDef
    /\ insts = << >>
    /\ heap = << >>
    /\ lastBox = NoBox
    /\ lastCall = NoCall
    /\ modules = [T \in ModuleTypes |-> NoSpec]
    /\ frames = << >>
    /\ arena = 0
    /\ input = [op |-> "none"]
    /\ output = RegexpState(<< >>, NoMatchData, {}, NoRegexpResult)

RegexpFrame ==
    UNCHANGED <<vm, classes, lastDef, boxVars, lastCall, modules, frames, arena, input>>

\* A script creates a Regexp object.
RegexpNew(p) ==
    /\ Len(output.objs) < MaxRegexps
    /\ output' = RegexpState(Append(output.objs, p), output.md, output.returned,
                             NoRegexpResult)
    /\ RegexpFrame

\* A match with the Regexp object id creates the MatchData, which holds a
\* clone of the regexp.
RegexpMatch(id) ==
    /\ id \in 1..Len(output.objs)
    /\ ~output.md.some
    /\ output' = RegexpState(output.objs,
                             [some |-> TRUE, regexp |-> output.objs[id], source |-> id],
                             {}, NoRegexpResult)
    /\ RegexpFrame

\* The state after a call of MatchData#regexp returned r.
RegexpReturned(r) ==
    /\ Len(r.objs) <= MaxRegexps
    /\ output' = RegexpState(r.objs, output.md,
                             output.returned
                                 \cup (IF output.res.called /\ output.res.ok
                                       THEN {output.res.id} ELSE {}),
                             r.res)
    /\ RegexpFrame

\* A call of MatchData#regexp.
RegexpCall(unboxOk, allocOk) ==
    RegexpReturned(matchdata_regexp(output.objs, output.md, unboxOk, allocOk))

RegexpNext ==
    \/ \E p \in Patterns : RegexpNew(p)
    \/ \E id \in 1..MaxRegexps : RegexpMatch(id)
    \/ \E unboxOk \in BOOLEAN, allocOk \in BOOLEAN : RegexpCall(unboxOk, allocOk)

SpecRegexp == RegexpInit /\ [][RegexpNext]_vars

\* C35: a call of MatchData#regexp that returns a value returns a Regexp
\* object that did not exist before the call, so it is neither the object the
\* match was made with nor one an earlier call returned, and the regexp it
\* holds is the one of the match, which is that of the object the match was
\* made with.
C35_RegexpNewObject ==
    [][ output'.res.called /\ output'.res.ok =>
          /\ output'.res.id \notin 1..Len(output.objs)
          /\ output'.res.id # output.md.source
          /\ output'.res.id \notin output'.returned
          /\ output'.res.id \in 1..Len(output'.objs)
          /\ output'.objs[output'.res.id] = output.md.regexp
          /\ output'.objs[output'.res.id] = output'.objs[output.md.source]
          /\ \A i \in 1..Len(output.objs) : output'.objs[i] = output.objs[i] ]_vars

\* A second call has returned a Regexp object other than the first call's
\* and other than the one of the match, with the same pattern.
C35_Witness ==
    /\ output.res.called
    /\ output.res.ok
    /\ output.returned # {}
    /\ output.res.id \notin output.returned \cup {output.md.source}
    /\ \A i \in output.returned : output.objs[i] = output.objs[output.res.id]
    /\ output.objs[output.md.source] = output.objs[output.res.id]


\* The invocation of the entry point of the feature T that follows in the
\* state (reg, mods, v), with nothing rejected.
LaterRequire(reg, mods, v, T) ==
    IF T = "MatchData"
    THEN matchdata_init(reg, mods, v, NoMethod, TRUE)
    ELSE securerandom_require(reg, mods, v, NoMethod)

\* C36: an entry point that returns an error leaves its type without an
\* entry in the registry, whichever step failed, the eval of the Ruby source
\* at the end of MatchData init included; the invocation that follows does
\* the registration again instead of returning early.
C36_FailedRequireUnregistered ==
    [][ lastDef'.op = "require" /\ ~lastDef'.res.ok =>
          /\ ~FeatureRegistered(classes', modules', lastDef'.type)
          /\ LaterRequire(classes', modules', vm', lastDef'.type).calls # << >>
          /\ FeatureRegistered(
                LaterRequire(classes', modules', vm', lastDef'.type).classes,
                LaterRequire(classes', modules', vm', lastDef'.type).modules,
                lastDef'.type) ]_vars


(***************************************************************************)
(* The first statements of a native method: mrb_get_args!, then            *)
(* unwrap_interpreter!, then Guard::new.  output holds the position, the   *)
(* statements completed, whether the function holds the interpreter and a  *)
(* guard, and the statement that unwound the function.                     *)
(***************************************************************************)
\* The argument spec of mrb_get_args! in each function: required, optional.
EntryArgs(m) ==
    IF m \in {"begin", "end", "offset", "initialize"} THEN [req |-> 1, opt |-> 0]
    ELSE IF m = "element_reference" THEN [req |-> 1, opt |-> 1]
    ELSE IF m \in {"alphanumeric", "base64", "hex", "random_bytes", "random_number"}
    THEN [req |-> 0, opt |-> 1]
    ELSE [req |-> 0, opt |-> 0]

\* The VM calls the function m with argc arguments; the interpreter can or
\* cannot be unwrapped and the body returns Ok or Err.
EntryCalls ==
    [ op : {"call"},
      method : MatchDataMethods \cup {sm.name : sm \in SecureRandomMethods}
                   \cup {"initialize"},
      argc : 0..MaxArgc, unwrap : BOOLEAN, ok : BOOLEAN ]

\* mrb_get_args: the VM raises ArgumentError out of the function unless the
\* number of arguments fits the spec.
mrb_get_args(spec, argc) == spec.req <= argc /\ argc <= spec.req + spec.opt

\* A function that extracts its arguments after it created the guard.
Mut_entry_after(pc) ==
    CASE pc = "enter" -> "unwrap_interpreter"
      [] pc = "unwrap_interpreter" -> "Guard_new"
      [] pc = "Guard_new" -> "get_args"
      [] OTHER -> "body"

\* The statement of the function that follows the statement pc.
entry_after(pc) ==
    CASE pc = "enter" -> "get_args"
      [] pc = "get_args" -> "unwrap_interpreter"
      [] pc = "unwrap_interpreter" -> "Guard_new"
      [] OTHER -> "body"

\* The function after the statement at output.pc completed.
EntryStepped(interp, guard) ==
    Returns([output EXCEPT !.pc = entry_after(output.pc),
                           !.trace = Append(output.trace, output.pc),
                           !.interp = interp, !.guard = guard])

\* The function has ended at the statement output.pc: by a return, which
\* drops its locals, or by a raise of the VM, which jumps over them.
EntryEnded(pc, interp, guard) ==
    Returns([output EXCEPT !.pc = pc, !.end = output.pc,
                           !.interp = interp, !.guard = guard])

\* The VM calls the function.
EntryEnter ==
    /\ Pending
    /\ Returns([op |-> "entry", pc |-> entry_after("enter"), trace |-> << >>,
                interp |-> FALSE, guard |-> FALSE, end |-> ""])

\* let args = mrb_get_args!(mrb, ..)
EntryGetArgs ==
    /\ output.op = "entry"
    /\ output.pc = "get_args"
    /\ IF mrb_get_args(EntryArgs(input.method), input.argc)
       THEN EntryStepped(output.interp, output.guard)
       ELSE EntryEnded("unwound", output.interp, output.guard)

\* let mut interp = unwrap_interpreter!(mrb): returns nil when there is none.
EntryUnwrap ==
    /\ output.op = "entry"
    /\ output.pc = "unwrap_interpreter"
    /\ IF input.unwrap
       THEN EntryStepped(TRUE, output.guard)
       ELSE EntryEnded("returned", FALSE, FALSE)

\* let mut guard = Guard::new(&mut interp)
EntryGuard ==
    /\ output.op = "entry"
    /\ output.pc = "Guard_new"
    /\ EntryStepped(output.interp, TRUE)

\* The rest of the function: the result is returned, or raised with
\* exception::raise(guard, exception), which takes the guard.
EntryBody ==
    /\ output.op = "entry"
    /\ output.pc = "body"
    /\ IF input.ok
       THEN EntryEnded("returned", FALSE, FALSE)
       ELSE EntryEnded("unwound", output.interp, FALSE)

EntryNext == EntryEnter \/ EntryGetArgs \/ EntryUnwrap \/ EntryGuard \/ EntryBody

SpecEntry == PureInit(EntryCalls) /\ [][EntryNext]_vars

\* C37: in every native method the arguments are extracted before the
\* interpreter is unwrapped and before the guard is created; when the
\* extraction raises, the function holds neither the interpreter nor a guard
\* and has completed no statement.
C37_ArgsBeforeGuard ==
    output.op = "entry" =>
        /\ \E k \in 0..4 :
              output.trace
                  = SubSeq(<<"get_args", "unwrap_interpreter", "Guard_new", "body">>, 1, k)
        /\ output.interp \/ output.guard =>
              Len(output.trace) >= 1 /\ output.trace[1] = "get_args"
        /\ output.pc = "get_args" => ~output.interp /\ ~output.guard
        /\ output.pc = "unwound" /\ output.end = "get_args" =>
              /\ ~output.interp
              /\ ~output.guard
              /\ output.trace = << >>

\* artichoke_matchdata_element_reference was called without arguments: the
\* extraction has raised out of the function.
C37_Witness ==
    /\ output.op = "entry"
    /\ input.method = "element_reference"
    /\ input.argc = 0
    /\ output.pc = "unwound"
    /\ output.end = "get_args"


(***************************************************************************)
(* The memory of class Specs: the name buffer of the CString each Spec     *)
(* owns and the pointer its data_type keeps.  output holds the buffers     *)
(* (freed or not) and the Specs (dropped or not, where they live).         *)
(***************************************************************************)
FreeFns == {"none", "box_unbox_free"}

MemState(bufs, specs) == [op |-> "mem", bufs |-> bufs, specs |-> specs]

\* CString::new(name): a buffer of its own on the heap.
CString_alloc(bufs, name) ==
    [bufs |-> Append(bufs, [bytes |-> name, live |-> TRUE]), ptr |-> Len(bufs) + 1]

\* class::Spec::new with the buffer c: struct_name is cstring.as_ptr().
class_Spec_in(name, c, free) ==
    [ alive |-> TRUE, at |-> "stack", name |-> name, cstring |-> c.ptr,
      data_type |-> [struct_name |-> c.ptr, dfree |-> free], free |-> free ]

\* #[derive(Clone)] for class::Spec with the buffer c of the cloned CString:
\* the fields are cloned one by one and mrb_data_type is copied as it is.
class_Spec_clone_in(s, c) ==
    [ alive |-> TRUE, at |-> "stack", name |-> s.name, cstring |-> c.ptr,
      data_type |-> s.data_type, free |-> s.free ]

\* Drop for the Spec i: its CString frees its buffer.
class_Spec_drop(bufs, specs, i) ==
    MemState([bufs EXCEPT ![specs[i].cstring].live = FALSE],
             [specs EXCEPT ![i].alive = FALSE])

MemFrame ==
    UNCHANGED <<vm, classes, lastDef, boxVars, lastCall, modules, frames, arena, input>>

\* class::Spec::new(name, None, free)
MemSpecNew(name, free) ==
    /\ Len(output.specs) < MaxSpecs
    /\ output' = MemState(CString_alloc(output.bufs, name).bufs,
                          Append(output.specs,
                                 class_Spec_in(name, CString_alloc(output.bufs, name),
                                               free)))
    /\ MemFrame

\* spec.clone() of the Spec i
MemSpecClone(i) ==
    /\ Len(output.specs) < MaxSpecs
    /\ i \in 1..Len(output.specs)
    /\ output.specs[i].alive
    /\ output' = MemState(CString_alloc(output.bufs, output.specs[i].name).bufs,
                          Append(output.specs,
                                 class_Spec_clone_in(output.specs[i],
                                     CString_alloc(output.bufs, output.specs[i].name))))
    /\ MemFrame

\* interp.def_class::<T>(spec): the Spec i moves into a Box of the registry;
\* the CString moves with it and keeps its buffer.
MemDefClass(i) ==
    /\ i \in 1..Len(output.specs)
    /\ output.specs[i].alive
    /\ output.specs[i].at = "stack"
    /\ output' = MemState(output.bufs, [output.specs EXCEPT ![i].at = "registry"])
    /\ MemFrame

\* The Spec i goes out of scope.
MemSpecDrop(i) ==
    /\ i \in 1..Len(output.specs)
    /\ output.specs[i].alive
    /\ output.specs[i].at = "stack"
    /\ output' = class_Spec_drop(output.bufs, output.specs, i)
    /\ MemFrame

MemInit ==
    /\ vm = VmInit
    /\ classes = [T \in HostTypes |-> NoSpec]
    /\ lastDef = NoDef
    /\ insts = << >>
    /\ heap = << >>
    /\ lastBox = NoBox
    /\ lastCall = NoCall
    /\ modules = [T \in ModuleTypes |-> NoSpec]
    /\ frames = << >>
    /\ arena = 0
    /\ input = [op |-> "none"]
    /\ output = MemState(<< >>, << >>)

MemNext ==
    \/ \E n \in Names, f \in FreeFns : MemSpecNew(n, f)
    \/ \E i \in 1..MaxSpecs : MemSpecClone(i)
    \/ \E i \in 1..MaxSpecs : MemDefClass(i)
    \/ \E i \in 1..MaxSpecs : MemSpecDrop(i)

SpecSpecMem == MemInit /\ [][MemNext]_vars

\* C38: the struct_name of the data_type of every class Spec that exists,
\* clones included and whatever became of the Spec it was cloned from, points
\* to the name buffer that this Spec owns, which is not freed, and the free
\* function of its data_type is the one passed at construction.
C38_StructNameOwnBuffer ==
    \A i \in 1..Len(output.specs) :
        output.specs[i].alive =>
            /\ output.specs[i].data_type.struct_name = output.specs[i].cstring
            /\ output.bufs[output.specs[i].data_type.struct_name].live
            /\ output.specs[i].data_type.dfree = output.specs[i].free


(***************************************************************************)
(* Kernel#puts.  A value is a string or an Array of the VM, by its id;     *)
(* input holds the Arrays of the VM and the argument list, output what     *)
(* was written and how the call ended.                                     *)
(***************************************************************************)
StringValue == [array |-> FALSE, id |-> 0]

ArrayValue(i) == [array |-> TRUE, id |-> i]

\* The values over n Arrays, and the lists of at most two of them.
PutsValues(n) == {StringValue} \cup {ArrayValue(i) : i \in 1..n}

PutsLists(n) ==
    {<< >>} \cup {<< v >> : v \in PutsValues(n)}
            \cup {<< v, w >> : v \in PutsValues(n), w \in PutsValues(n)}

\* A call of puts with a list of arguments in a VM with n Arrays; io tells
\* whether the writes succeed.
PutsCalls ==
    UNION { [ op : {"puts"}, arrays : [1..n -> PutsLists(n)], args : PutsLists(n),
              io : BOOLEAN ] : n \in 0..MaxArrays }

\* Nothing written yet.
PutsStart == [op |-> "puts", ok |-> TRUE, overflow |-> FALSE, out |-> << >>]

\* interp.puts(display)? and interp.print(b"\n")?: the bytes are written, or
\* the error is returned.
puts_write(acc, bytes, io) ==
    IF io THEN [acc EXCEPT !.out = @ \o bytes] ELSE [acc EXCEPT !.ok = FALSE]

RECURSIVE puts_foreach(_, _, _, _, _)
RECURSIVE puts_for(_, _, _, _, _, _)
\* for value in &array { puts_foreach(interp, value)? }, from element k on.
puts_for(arrays, elems, k, io, depth, acc) ==
    IF k > Len(elems) \/ ~acc.ok \/ acc.overflow
    THEN acc
    ELSE puts_for(arrays, elems, k + 1, io, depth,
                  puts_foreach(arrays, elems[k], io, depth, acc))

\* puts_foreach: an Array is descended into, anything else is written with
\* to_s.  depth counts the calls on the host stack; a descent deeper than
\* there are Arrays is in a cycle and goes on until the stack overflows.
puts_foreach(arrays, value, io, depth, acc) ==
    IF value.array
    THEN IF depth > MaxArrays
         THEN [acc EXCEPT !.overflow = TRUE]
         ELSE puts_for(arrays, arrays[value.id], 1, io, depth + 1, acc)
    ELSE puts_write(acc, << "to_s", "\n" >>, io)

\* kernel::trampoline::puts
puts(arrays, args, io) ==
    IF args = << >>
    THEN puts_write(PutsStart, << "\n" >>, io)
    ELSE puts_for(arrays, args, 1, io, 1, PutsStart)

\* A call of Kernel#puts.
Puts ==
    /\ Pending
    /\ Returns(puts(input.arrays, input.args, input.io))

SpecPuts == PureInit(PutsCalls) /\ [][Puts]_vars

\* C39: puts returns for every argument list, lists with Arrays that contain
\* themselves included; without arguments it writes one newline, and with
\* arguments that are strings one line for each, in order.
C39_PutsTerminates ==
    output.op = "puts" =>
        /\ ~output.overflow
        /\ input.io /\ input.args = << >> => output.out = << "\n" >>
        /\ input.io /\ input.args = << StringValue, StringValue >> =>
              output.out = << "to_s", "\n", "to_s", "\n" >>

====
